---- MODULE Spec2Model ----
(***************************************************************************)
(* HxRequestIndex (hx_requests_lsp/index.py): the cross-reference index of *)
(* hx_request definitions (Python classes) and usages (template tags).     *)
(*                                                                         *)
(* A Python source is modelled by what the definition parser extracts from *)
(* it: the sequence of handler names it declares, in declaration order     *)
(* (declaration i sits on line i).  A template source is the sequence of   *)
(* handler names its tags invoke (usage i sits on line i).  A source that  *)
(* does not parse, and a file that is missing, yield the empty sequence.   *)
(***************************************************************************)
EXTENDS Integers, Sequences, FiniteSets, TLC

\* ---------------------------------------------------------------- bounds
MaxDecls == 2   \* most declarations (usages) one source text holds

Names == {"a", "b"}

\* find_hx_request_files(root) and find_template_files(root): the files the
\* naming convention matches, sorted by path
PythonFilesSorted == <<"app1/hx_requests.py", "app2/hx_requests.py">>
TemplateFilesSorted == <<"app1/templates/t.html", "app2/templates/t.html">>
PyFiles == {PythonFilesSorted[i] : i \in DOMAIN PythonFilesSorted}
HtmlFiles == {TemplateFilesSorted[i] : i \in DOMAIN TemplateFilesSorted}
Files == PyFiles \cup HtmlFiles

\* Path.suffix of the paths of the model
Suffix(path) == IF path \in PyFiles THEN ".py" ELSE IF path \in HtmlFiles THEN ".html" ELSE ""

\* what a Python source declares: up to MaxDecls handler names, in order
Sources == UNION {[1..n -> Names] : n \in 0..MaxDecls}
\* what a template invokes: nothing, one name, one name twice, another name
TemplateSources == {<<>>, <<"a">>, <<"a", "a">>, <<"b">>}
SourcesOf(path) == IF path \in PyFiles THEN Sources ELSE TemplateSources

\* Python's None: as an absent definition, an absent path, a free lock
None == [none |-> TRUE]
NoPath == "None"
NoThread == "None"

\* the workspace root the language server sets on initialize
WorkspaceRoot == "/ws"

VARIABLES
    definitions,             \* self._definitions: name -> definition
    usages,                  \* self._usages: name -> list of usages
    definitions_by_file,     \* self._definitions_by_file: path -> list of definitions
    usages_by_file,          \* self._usages_by_file: path -> list of usages
    indexed_python_files,    \* self._indexed_python_files
    indexed_template_files,  \* self._indexed_template_files
    build_pc,                \* position of a build_full_index running alone
    last,                    \* history: the call that produced this state
    lock_owner,              \* self._lock: the thread holding it, or None
    pc,                      \* per thread: its position in the call it runs
    call,                    \* per thread: the call it runs, its inputs and result
    serial,                  \* history: the calls applied whole, in lock order
    committed,               \* history: the index when the lock was last released
    workspace_root,          \* self._workspace_root, or None
    outcome,                 \* history: how the last call on disk content ended
    eval,                    \* a helper function applied: its inputs, its result
    class_cache,             \* lru_cache of _parse_file_for_classes: path -> classes
    key_order                \* the keys of the two name maps in insertion order

idx == <<definitions, usages, definitions_by_file, usages_by_file,
         indexed_python_files, indexed_template_files>>
seq_vars == <<build_pc, last>>
conc_vars == <<lock_owner, pc, call, serial, committed>>
aux_vars == <<workspace_root, outcome, eval, class_cache, key_order>>
vars == <<definitions, usages, definitions_by_file, usages_by_file,
          indexed_python_files, indexed_template_files, build_pc, last,
          lock_owner, pc, call, serial, committed,
          workspace_root, outcome, eval, class_cache, key_order>>

\* ------------------------------------------------------------ dictionaries
EmptyDict == <<>>
DictGet(d, k, default) == IF k \in DOMAIN d THEN d[k] ELSE default
DictDel(d, k) == [x \in (DOMAIN d) \ {k} |-> d[x]]
DictPut(d, k, v) == [x \in (DOMAIN d) \cup {k} |-> IF x = k THEN v ELSE d[x]]

\* ------------------------------------------------------------------ parsers
\* parse_hx_requests_from_source: one HxRequestDefinition per declaration
ParseHxRequests(source, file_path) ==
    [i \in 1..Len(source) |->
        [name |-> source[i], file_path |-> file_path, line_number |-> i]]

\* parse_template_for_hx_requests: one HxRequestUsage per invocation
ParseTemplate(source, file_path) ==
    [i \in 1..Len(source) |->
        [name |-> source[i], file_path |-> file_path, line_number |-> i]]

\* ------------------------------------------------- steps of the index code
\* for old_def in old_definitions: delete the name if this file still owns it
RECURSIVE RemoveOldDefinitionsUnguarded(_, _, _)
RemoveOldDefinitionsUnguarded(defs, old, file_path) ==
    IF old = <<>> THEN defs
    ELSE LET n == Head(old).name
             d1 == IF n \in DOMAIN defs THEN DictDel(defs, n) ELSE defs
         IN RemoveOldDefinitionsUnguarded(d1, Tail(old), file_path)

RemoveOldDefinitionsSkipped(defs, old, file_path) == defs

RECURSIVE RemoveOldDefinitions(_, _, _)
RemoveOldDefinitions(defs, old, file_path) ==
    IF old = <<>> THEN defs
    ELSE LET n == Head(old).name
             d1 == IF n \in DOMAIN defs
                   THEN IF defs[n].file_path = file_path THEN DictDel(defs, n) ELSE defs
                   ELSE defs
         IN RemoveOldDefinitions(d1, Tail(old), file_path)

\* for definition in definitions: self._definitions[definition.name] = definition
RECURSIVE InsertDefinitionsFirstWins(_, _)
InsertDefinitionsFirstWins(defs, new) ==
    IF new = <<>> THEN defs
    ELSE InsertDefinitionsFirstWins(
            IF Head(new).name \in DOMAIN defs THEN defs
            ELSE DictPut(defs, Head(new).name, Head(new)), Tail(new))

RECURSIVE InsertDefinitions(_, _)
InsertDefinitions(defs, new) ==
    IF new = <<>> THEN defs
    ELSE InsertDefinitions(DictPut(defs, Head(new).name, Head(new)), Tail(new))

\* [u for u in self._usages[name] if u.file_path != file_path_str]
OtherFilesNone(us, file_path) == <<>>

OtherFiles(us, file_path) ==
    LET Keep(u) == u.file_path # file_path IN SelectSeq(us, Keep)

\* for old_usage in old_usages: filter this file out of the name's list, and
\* delete the name when its list becomes empty
RemoveOldUsagesSkipped(us, old, file_path) == us

RECURSIVE RemoveOldUsages(_, _, _)
RemoveOldUsages(us, old, file_path) ==
    IF old = <<>> THEN us
    ELSE LET n == Head(old).name
             u1 == IF n \in DOMAIN us
                   THEN LET kept == OtherFiles(us[n], file_path)
                        IN IF kept = <<>> THEN DictDel(us, n) ELSE DictPut(us, n, kept)
                   ELSE us
         IN RemoveOldUsages(u1, Tail(old), file_path)

\* for usage in usages: self._usages.setdefault(name, []).append(usage)
RECURSIVE InsertUsages(_, _)
InsertUsages(us, new) ==
    IF new = <<>> THEN us
    ELSE InsertUsages(
            DictPut(us, Head(new).name, Append(DictGet(us, Head(new).name, <<>>), Head(new))),
            Tail(new))

\* ------------------------------------------- the index as one value, st
IndexState ==
    [definitions |-> definitions, usages |-> usages,
     definitions_by_file |-> definitions_by_file, usages_by_file |-> usages_by_file,
     indexed_python_files |-> indexed_python_files,
     indexed_template_files |-> indexed_template_files]

SetIndex(st) ==
    /\ definitions' = st.definitions
    /\ usages' = st.usages
    /\ definitions_by_file' = st.definitions_by_file
    /\ usages_by_file' = st.usages_by_file
    /\ indexed_python_files' = st.indexed_python_files
    /\ indexed_template_files' = st.indexed_template_files

\* __init__, and the six clear() calls of build_full_index
EmptyIndex ==
    [definitions |-> EmptyDict, usages |-> EmptyDict,
     definitions_by_file |-> EmptyDict, usages_by_file |-> EmptyDict,
     indexed_python_files |-> {}, indexed_template_files |-> {}]

ClearIndexNameMapsOnly(st) ==
    [st EXCEPT !.definitions = EmptyDict, !.usages = EmptyDict]

\* build_full_index: the six clear() calls, whatever the index held
ClearIndex(st) == EmptyIndex

\* _update_python_file / remove_file, first half: the old definitions leave
EvictDefinitions(st, file_path) ==
    [st EXCEPT !.definitions =
        RemoveOldDefinitions(st.definitions,
                             DictGet(st.definitions_by_file, file_path, <<>>), file_path)]

\* _update_python_file, second half, and _index_python_file: the parsed
\* definitions are recorded for the file and inserted by name
StoreDefinitions(st, file_path, new) ==
    [st EXCEPT !.definitions_by_file = DictPut(st.definitions_by_file, file_path, new),
               !.indexed_python_files = st.indexed_python_files \cup {file_path},
               !.definitions = InsertDefinitions(st.definitions, new)]

\* _update_template_file / remove_file, first half: the old usages leave
EvictUsages(st, file_path) ==
    [st EXCEPT !.usages =
        RemoveOldUsages(st.usages, DictGet(st.usages_by_file, file_path, <<>>), file_path)]

\* _update_template_file, second half, and _index_template_file
StoreUsages(st, file_path, new) ==
    [st EXCEPT !.usages_by_file = DictPut(st.usages_by_file, file_path, new),
               !.indexed_template_files = st.indexed_template_files \cup {file_path},
               !.usages = InsertUsages(st.usages, new)]

update_python_file(st, file_path, source) ==
    StoreDefinitions(EvictDefinitions(st, file_path), file_path,
                     ParseHxRequests(source, file_path))

update_template_file(st, file_path, source) ==
    StoreUsages(EvictUsages(st, file_path), file_path, ParseTemplate(source, file_path))

\* update_file: by suffix; any other suffix changes nothing
update_file(st, file_path, source) ==
    IF Suffix(file_path) = ".py" THEN update_python_file(st, file_path, source)
    ELSE IF Suffix(file_path) = ".html" THEN update_template_file(st, file_path, source)
    ELSE st

\* the Python half of remove_file that leaves the name map as it is
ForgetPythonFileNameMapKept(st, file_path) ==
    IF file_path \in st.indexed_python_files
    THEN [st EXCEPT
            !.definitions_by_file = DictDel(st.definitions_by_file, file_path),
            !.indexed_python_files = st.indexed_python_files \ {file_path}]
    ELSE st


\* remove_file, the Python half and the template half
ForgetPythonFile(st, file_path) ==
    IF file_path \in st.indexed_python_files
    THEN [EvictDefinitions(st, file_path) EXCEPT
            !.definitions_by_file = DictDel(st.definitions_by_file, file_path),
            !.indexed_python_files = st.indexed_python_files \ {file_path}]
    ELSE st

ForgetTemplateFilePerFileOnly(st, file_path) ==
    IF file_path \in st.indexed_template_files
    THEN [st EXCEPT
            !.usages_by_file = DictDel(st.usages_by_file, file_path),
            !.indexed_template_files = st.indexed_template_files \ {file_path}]
    ELSE st

ForgetTemplateFile(st, file_path) ==
    IF file_path \in st.indexed_template_files
    THEN [EvictUsages(st, file_path) EXCEPT
            !.usages_by_file = DictDel(st.usages_by_file, file_path),
            !.indexed_template_files = st.indexed_template_files \ {file_path}]
    ELSE st

remove_file(st, file_path) == ForgetTemplateFile(ForgetPythonFile(st, file_path), file_path)

index_python_file(st, file_path, source) ==
    StoreDefinitions(st, file_path, ParseHxRequests(source, file_path))

index_template_file(st, file_path, source) ==
    StoreUsages(st, file_path, ParseTemplate(source, file_path))

\* ----------------------------------------------------------------- queries
Range(s) == {s[i] : i \in DOMAIN s}
NamesIn(list) == {list[i].name : i \in DOMAIN list}

get_definition(st, name) == DictGet(st.definitions, name, None)
get_usages(st, name) == DictGet(st.usages, name, <<>>)
get_all_definition_names(st) == DOMAIN st.definitions
get_definitions_in_file(st, file_path) == DictGet(st.definitions_by_file, file_path, <<>>)
get_usages_in_file(st, file_path) == DictGet(st.usages_by_file, file_path, <<>>)

\* find_undefined_usages, as the set of the usages it returns
find_undefined_usages(st) ==
    UNION {Range(st.usages[n]) :
            n \in {m \in DOMAIN st.usages : m \notin DOMAIN st.definitions}}

\* find_unused_definitions, as the set of the definitions it returns
find_unused_definitions(st) ==
    {st.definitions[n] :
        n \in {m \in DOMAIN st.definitions :
                m \notin DOMAIN st.usages \/ st.usages[m] = <<>>}}

\* the handler names in Python's string order, "a" < "b"
NamesSorted == <<"a", "b">>
NameRank(name) == CHOOSE i \in DOMAIN NamesSorted : NamesSorted[i] = name

\* sorted(S, key = ...): the elements of S by ascending key
RECURSIVE SortedBy(_, _)
SortedBy(S, key) ==
    IF S = {} THEN <<>>
    ELSE LET m == CHOOSE x \in S : \A y \in S : key[x] <= key[y]
         IN <<m>> \o SortedBy(S \ {m}, key)

\* the keys of a dict in the order a loop over it visits them
KeysInOrder(d) ==
    LET Present(n) == n \in DOMAIN d IN SelectSeq(NamesSorted, Present)

\* the values of d under the wanted keys, concatenated in the order of keys
RECURSIVE Extend(_, _, _)
Extend(d, keys, wanted) ==
    IF keys = <<>> THEN <<>>
    ELSE (IF Head(keys) \in wanted THEN d[Head(keys)] ELSE <<>>)
         \o Extend(d, Tail(keys), wanted)

AllUsagesList(st) == Extend(st.usages, KeysInOrder(st.usages), Names)

\* find_undefined_usages, as the list it returns
find_undefined_usages_list(st) ==
    Extend(st.usages, KeysInOrder(st.usages),
           {n \in DOMAIN st.usages : n \notin DOMAIN st.definitions})

AllDefinitionsList(st) ==
    Extend([n \in DOMAIN st.definitions |-> <<st.definitions[n]>>],
           KeysInOrder(st.definitions), Names)

\* find_unused_definitions, as the list it returns
find_unused_definitions_list(st) ==
    Extend([n \in DOMAIN st.definitions |-> <<st.definitions[n]>>],
           KeysInOrder(st.definitions),
           {n \in DOMAIN st.definitions :
                n \notin DOMAIN st.usages \/ st.usages[n] = <<>>})

NamesDescending(st) ==
    SortedBy(DOMAIN st.definitions, [n \in DOMAIN st.definitions |-> 0 - NameRank(n)])

\* get_all_definition_names, as the list it returns: sorted(keys)
get_all_definition_names_sorted(st) ==
    SortedBy(DOMAIN st.definitions, [n \in DOMAIN st.definitions |-> NameRank(n)])

\* ------------------------------------------------- threads (ConcSpec)
Writers == {"w1", "w2"}
Readers == {"r1"}
Threads == Writers \cup Readers

\* the files, sources and names the concurrent calls are about
ConcFiles == {PythonFilesSorted[1], TemplateFilesSorted[1]}
ConcSources == {<<>>, <<"a">>}
ConcNames == {"a"}
\* what a build finds on disk: the files that exist, each with its source
Disks == UNION {[found -> ConcSources] : found \in SUBSET ConcFiles}

NoArgs == [op |-> "none", file_path |-> NoPath, source |-> <<>>, disk |-> <<>>,
           todo |-> <<>>, name |-> "", result |-> None, allowed |-> {},
           midway |-> FALSE]

\* build_full_index on disk, as one value: the list of found files, sorted,
\* each indexed from its source on disk
FoundSorted(disk) ==
    LET Found(f) == f \in DOMAIN disk
    IN SelectSeq(PythonFilesSorted \o TemplateFilesSorted, Found)

IndexFileFromDisk(st, file_path, disk) ==
    IF Suffix(file_path) = ".py"
    THEN index_python_file(st, file_path, disk[file_path])
    ELSE index_template_file(st, file_path, disk[file_path])

RECURSIVE IndexFiles(_, _, _)
IndexFiles(st, files, disk) ==
    IF files = <<>> THEN st
    ELSE IndexFiles(IndexFileFromDisk(st, Head(files), disk), Tail(files), disk)

build_full_index(st, disk) == IndexFiles(ClearIndex(st), FoundSorted(disk), disk)

\* a mutating call applied whole
Apply(st, c) ==
    CASE c.op = "update_file" -> update_file(st, c.file_path, c.source)
      [] c.op = "remove_file" -> remove_file(st, c.file_path)
      [] c.op = "build_full_index" -> build_full_index(st, c.disk)
      [] OTHER -> st

\* the answer of a read query on index st
Answer(st, c) ==
    CASE c.op = "get_definition" -> get_definition(st, c.name)
      [] c.op = "get_usages" -> get_usages(st, c.name)

\* history of a query: it was issued while a writer was inside its with block
\* and the maps, as they stood, gave an answer that neither the maps before
\* that writer's call nor the maps after it give
Midway(q) ==
    /\ lock_owner # NoThread
    /\ Answer(IndexState, q) \notin {Answer(committed, q), Answer(serial, q)}

\* with self._lock: the lock is free (or, an RLock, already this thread's)
LockBroken(t) == TRUE

Acquirable(t) == lock_owner \in {NoThread, t}

\* --------------------------------------------- calls, one thread (Spec)
\* history of a call on file_path: the names the file's recorded list held
\* before it, and those among them that another file's definition owned
CallRecord(op, file_path) ==
    LET old == IF Suffix(file_path) = ".py"
               THEN get_definitions_in_file(IndexState, file_path)
               ELSE get_usages_in_file(IndexState, file_path)
    IN [op |-> op, file_path |-> file_path,
        old_names |-> NamesIn(old),
        kept |-> IF Suffix(file_path) = ".py"
                 THEN {n \in NamesIn(old) : /\ n \in DOMAIN definitions
                                            /\ definitions[n].file_path # file_path}
                 ELSE {}]

NoCall == [op |-> "none", file_path |-> NoPath, old_names |-> {}, kept |-> {}]

Idle == [at |-> "idle", todo |-> <<>>]

NoOutcome == [op |-> "none", raised |-> FALSE, read |-> "none"]
NoEval == [fn |-> "none"]
\* no key inserted yet (the order is followed in OrderSpec only)
NoOrder == [definitions |-> <<>>, usages |-> <<>>]

Init ==
    /\ definitions = EmptyDict
    /\ usages = EmptyDict
    /\ definitions_by_file = EmptyDict
    /\ usages_by_file = EmptyDict
    /\ indexed_python_files = {}
    /\ indexed_template_files = {}
    /\ build_pc = Idle
    /\ last = NoCall
    /\ lock_owner = NoThread
    /\ pc = [t \in Threads |-> "idle"]
    /\ call = [t \in Threads |-> NoArgs]
    /\ serial = EmptyIndex
    /\ committed = EmptyIndex
    /\ workspace_root = WorkspaceRoot
    /\ outcome = NoOutcome
    /\ eval = NoEval
    /\ class_cache = EmptyDict
    /\ key_order = NoOrder

\* update_file(file_path, content): the content given, or read from disk
UpdateFile ==
    /\ build_pc.at = "idle"
    /\ \E file_path \in Files :
        \E source \in SourcesOf(file_path) :
            /\ SetIndex(update_file(IndexState, file_path, source))
            /\ last' = CallRecord("update", file_path)
    /\ UNCHANGED build_pc
    /\ UNCHANGED <<conc_vars, aux_vars>>

\* remove_file(file_path)
RemoveFile ==
    /\ build_pc.at = "idle"
    /\ \E file_path \in Files :
        /\ SetIndex(remove_file(IndexState, file_path))
        /\ last' = CallRecord("remove", file_path)
    /\ UNCHANGED build_pc
    /\ UNCHANGED <<conc_vars, aux_vars>>

\* build_full_index: the index is cleared, ...
BuildFullIndex ==
    /\ build_pc.at = "idle"
    /\ workspace_root # NoPath
    /\ SetIndex(ClearIndex(IndexState))
    /\ build_pc' = [at |-> "index", todo |-> PythonFilesSorted \o TemplateFilesSorted]
    /\ last' = [NoCall EXCEPT !.op = "clear"]
    /\ UNCHANGED <<conc_vars, aux_vars>>

\* ... then each file found under the root is parsed from disk and indexed,
\* the Python files first; a file of the convention may not exist
BuildIndexFile ==
    /\ build_pc.at = "index"
    /\ build_pc.todo # <<>>
    /\ LET file_path == Head(build_pc.todo) IN
        \/ \E source \in SourcesOf(file_path) :
            /\ SetIndex(IF Suffix(file_path) = ".py"
                        THEN index_python_file(IndexState, file_path, source)
                        ELSE index_template_file(IndexState, file_path, source))
            /\ last' = CallRecord("index", file_path)
        \/ UNCHANGED <<idx, last>>
    /\ build_pc' = [build_pc EXCEPT !.todo = Tail(build_pc.todo)]
    /\ UNCHANGED <<conc_vars, aux_vars>>

\* ... and build_full_index returns
BuildDone ==
    /\ build_pc.at = "index"
    /\ build_pc.todo = <<>>
    /\ build_pc' = Idle
    /\ last' = [NoCall EXCEPT !.op = "build"]
    /\ UNCHANGED idx
    /\ UNCHANGED <<conc_vars, aux_vars>>

\* ------------------------------------------------ calls, threads (ConcSpec)
Goto(t, label) == pc' = [pc EXCEPT ![t] = label]

\* a thread calls update_file, remove_file, build_full_index or a query
CallUpdateFile(t) ==
    /\ t \in Writers
    /\ pc[t] = "idle"
    /\ \E file_path \in ConcFiles, source \in ConcSources :
        call' = [call EXCEPT ![t] =
                    [NoArgs EXCEPT !.op = "update_file", !.file_path = file_path,
                                   !.source = source]]
    /\ Goto(t, "lock")
    /\ UNCHANGED <<idx, seq_vars, aux_vars, lock_owner, serial, committed>>

CallRemoveFile(t) ==
    /\ t \in Writers
    /\ pc[t] = "idle"
    /\ \E file_path \in ConcFiles :
        call' = [call EXCEPT ![t] =
                    [NoArgs EXCEPT !.op = "remove_file", !.file_path = file_path]]
    /\ Goto(t, "lock")
    /\ UNCHANGED <<idx, seq_vars, aux_vars, lock_owner, serial, committed>>

CallBuildFullIndex(t) ==
    /\ t \in Writers
    /\ pc[t] = "idle"
    /\ workspace_root # NoPath
    /\ \E disk \in Disks :
        call' = [call EXCEPT ![t] =
                    [NoArgs EXCEPT !.op = "build_full_index", !.disk = disk]]
    /\ Goto(t, "lock")
    /\ UNCHANGED <<idx, seq_vars, aux_vars, lock_owner, serial, committed>>

CallQuery(t) ==
    /\ t \in Readers
    /\ pc[t] = "idle"
    /\ \E op \in {"get_definition", "get_usages"}, name \in ConcNames :
        LET q == [NoArgs EXCEPT !.op = op, !.name = name] IN
        call' = [call EXCEPT ![t] = [q EXCEPT !.midway = Midway(q)]]
    /\ Goto(t, "lock")
    /\ UNCHANGED <<idx, seq_vars, aux_vars, lock_owner, serial, committed>>

\* with self._lock: entered
Acquire(t) ==
    /\ pc[t] = "lock"
    /\ Acquirable(t)
    /\ lock_owner' = t
    /\ serial' = Apply(serial, call[t])
    /\ Goto(t, CASE call[t].op = "update_file" -> "update_evict"
                 [] call[t].op = "remove_file" -> "remove_python"
                 [] call[t].op = "build_full_index" -> "build_clear"
                 [] OTHER -> "query_read")
    /\ UNCHANGED <<idx, seq_vars, aux_vars, call, committed>>

\* with self._lock: left
Release(t) ==
    /\ lock_owner' = NoThread
    /\ committed' = IndexState'

\* update_file, first half: the file's old entries leave the name map
UpdateEvict(t) ==
    /\ pc[t] = "update_evict"
    /\ SetIndex(IF Suffix(call[t].file_path) = ".py"
                THEN EvictDefinitions(IndexState, call[t].file_path)
                ELSE IF Suffix(call[t].file_path) = ".html"
                THEN EvictUsages(IndexState, call[t].file_path)
                ELSE IndexState)
    /\ Goto(t, "update_store")
    /\ UNCHANGED <<seq_vars, aux_vars, lock_owner, call, serial, committed>>

\* update_file, second half: the parsed entries are stored; the lock is left
UpdateStore(t) ==
    /\ pc[t] = "update_store"
    /\ SetIndex(IF Suffix(call[t].file_path) = ".py"
                THEN StoreDefinitions(IndexState, call[t].file_path,
                        ParseHxRequests(call[t].source, call[t].file_path))
                ELSE IF Suffix(call[t].file_path) = ".html"
                THEN StoreUsages(IndexState, call[t].file_path,
                        ParseTemplate(call[t].source, call[t].file_path))
                ELSE IndexState)
    /\ Release(t)
    /\ Goto(t, "idle")
    /\ call' = [call EXCEPT ![t] = NoArgs]
    /\ UNCHANGED <<seq_vars, aux_vars, serial>>

\* remove_file, the Python half
RemovePython(t) ==
    /\ pc[t] = "remove_python"
    /\ SetIndex(ForgetPythonFile(IndexState, call[t].file_path))
    /\ Goto(t, "remove_template")
    /\ UNCHANGED <<seq_vars, aux_vars, lock_owner, call, serial, committed>>

\* remove_file, the template half; the lock is left
RemoveTemplate(t) ==
    /\ pc[t] = "remove_template"
    /\ SetIndex(ForgetTemplateFile(IndexState, call[t].file_path))
    /\ Release(t)
    /\ Goto(t, "idle")
    /\ call' = [call EXCEPT ![t] = NoArgs]
    /\ UNCHANGED <<seq_vars, aux_vars, serial>>

\* build_full_index: the six clear() calls
BuildClear(t) ==
    /\ pc[t] = "build_clear"
    /\ SetIndex(ClearIndex(IndexState))
    /\ call' = [call EXCEPT ![t].todo = FoundSorted(call[t].disk)]
    /\ Goto(t, "build_index")
    /\ UNCHANGED <<seq_vars, aux_vars, lock_owner, serial, committed>>

\* build_full_index: one pass of its two loops
BuildIndex(t) ==
    /\ pc[t] = "build_index"
    /\ call[t].todo # <<>>
    /\ SetIndex(IndexFileFromDisk(IndexState, Head(call[t].todo), call[t].disk))
    /\ call' = [call EXCEPT ![t].todo = Tail(call[t].todo)]
    /\ UNCHANGED <<seq_vars, aux_vars, pc, lock_owner, serial, committed>>

\* build_full_index: the loops are over, the lock is left
BuildUnlock(t) ==
    /\ pc[t] = "build_index"
    /\ call[t].todo = <<>>
    /\ UNCHANGED idx
    /\ Release(t)
    /\ Goto(t, "build_log")
    /\ UNCHANGED <<seq_vars, aux_vars, call, serial>>

\* build_full_index: logger.info(len(self._definitions), sum(len(u) for u in
\* self._usages.values())), after the with block
BuildLog(t) ==
    /\ pc[t] = "build_log"
    /\ call' = [call EXCEPT ![t] = NoArgs]
    /\ Goto(t, "idle")
    /\ UNCHANGED <<idx, seq_vars, aux_vars, lock_owner, serial, committed>>

\* a query: the map is read, the lock is left, the result is returned
QueryRead(t) ==
    /\ pc[t] = "query_read"
    /\ call' = [call EXCEPT ![t].result = Answer(IndexState, call[t]),
                            ![t].allowed = {Answer(committed, call[t]),
                                            Answer(serial, call[t])}]
    /\ lock_owner' = NoThread
    /\ Goto(t, "returned")
    /\ UNCHANGED <<idx, seq_vars, aux_vars, serial, committed>>

Returned(t) ==
    /\ pc[t] = "returned"
    /\ call' = [call EXCEPT ![t] = NoArgs]
    /\ Goto(t, "idle")
    /\ UNCHANGED <<idx, seq_vars, aux_vars, lock_owner, serial, committed>>

ConcNext ==
    \E t \in Threads :
        \/ CallUpdateFile(t) \/ CallRemoveFile(t) \/ CallBuildFullIndex(t) \/ CallQuery(t)
        \/ Acquire(t)
        \/ UpdateEvict(t) \/ UpdateStore(t)
        \/ RemovePython(t) \/ RemoveTemplate(t)
        \/ BuildClear(t) \/ BuildIndex(t) \/ BuildUnlock(t) \/ BuildLog(t)
        \/ QueryRead(t) \/ Returned(t)

ConcSpec == Init /\ [][ConcNext]_vars

Next == UpdateFile \/ RemoveFile \/ BuildFullIndex \/ BuildIndexFile \/ BuildDone

Spec == Init /\ [][Next]_vars

\* no two indexed source files declare the same handler name
NoClash ==
    \A f \in indexed_python_files, g \in indexed_python_files :
        f # g => NamesIn(get_definitions_in_file(IndexState, f))
                    \cap NamesIn(get_definitions_in_file(IndexState, g)) = {}

\* the same calls, on workspaces where handler names are unique across files
NextDistinct ==
    \/ UpdateFile /\ NoClash'
    \/ RemoveFile /\ NoClash'
    \/ BuildFullIndex /\ NoClash'
    \/ BuildIndexFile /\ NoClash'
    \/ BuildDone /\ NoClash'

SpecDistinct == Init /\ [][NextDistinct]_vars

\* ------------------------------------------- calls on disk content (DiskSpec)
\* what a read of a path finds, besides a text: no file (exists() is False),
\* a file open() or read() fails on (permission denied, a directory: OSError),
\* bytes that are not UTF-8 (UnicodeDecodeError)
FileMissing == <<"<missing>">>
FileUnreadable == <<"<unreadable>">>
FileUndecodable == <<"<undecodable>">>
\* a text: one ast.parse rejects with SyntaxError, one it cannot encode (a str
\* holding a lone surrogate: UnicodeEncodeError), or one that parses
SyntaxErrorText == <<"<syntax error>">>
UnencodableText == <<"<unencodable>">>
\* content = None
NoContent == <<"<None>">>

DiskFiles == ConcFiles
DiskTexts == ConcSources
OnDisk == {FileMissing, FileUnreadable, FileUndecodable, SyntaxErrorText} \cup DiskTexts
Given == {SyntaxErrorText, UnencodableText} \cup DiskTexts

ReadKind(text) ==
    CASE text = FileMissing -> "missing"
      [] text = FileUnreadable -> "unreadable"
      [] text = FileUndecodable -> "undecodable"
      [] text = SyntaxErrorText -> "syntax"
      [] text = UnencodableText -> "unencodable"
      [] OTHER -> "ok"

\* parse_hx_requests_from_source: except SyntaxError -> []
parse_hx_requests_from_source(source, file_path) ==
    [raised |-> source = UnencodableText,
     parsed |-> IF source \in {SyntaxErrorText, UnencodableText} THEN <<>>
                ELSE ParseHxRequests(source, file_path)]

\* parse_hx_requests_from_file: not exists -> []; except (SyntaxError,
\* UnicodeDecodeError) -> []
parse_hx_requests_from_file(file, file_path) ==
    [raised |-> file = FileUnreadable,
     parsed |-> IF file \in {FileMissing, FileUnreadable, FileUndecodable, SyntaxErrorText}
                THEN <<>> ELSE ParseHxRequests(file, file_path)]

\* parse_template_for_hx_requests: regular expressions over the lines; a
\* text Python cannot parse or encode is scanned all the same, finding no tag
parse_template_for_hx_requests(content, file_path) ==
    [raised |-> FALSE,
     parsed |-> IF content \in {SyntaxErrorText, UnencodableText} THEN <<>>
                ELSE ParseTemplate(content, file_path)]

\* parse_template_file: not exists -> []; except UnicodeDecodeError -> []
parse_template_file(file, file_path) ==
    [raised |-> file = FileUnreadable,
     parsed |-> IF file \in {FileMissing, FileUnreadable, FileUndecodable} THEN <<>>
                ELSE IF file = SyntaxErrorText THEN <<>>
                ELSE ParseTemplate(file, file_path)]

\* the parser call of _update_python_file / _update_template_file
ParseFor(file_path, content, file) ==
    IF Suffix(file_path) = ".py"
    THEN IF content # NoContent
         THEN parse_hx_requests_from_source(content, file_path)
         ELSE parse_hx_requests_from_file(file, file_path)
    ELSE IF content # NoContent
         THEN parse_template_for_hx_requests(content, file_path)
         ELSE parse_template_file(file, file_path)

Evict(st, file_path) ==
    IF Suffix(file_path) = ".py" THEN EvictDefinitions(st, file_path)
    ELSE EvictUsages(st, file_path)

Store(st, file_path, new) ==
    IF Suffix(file_path) = ".py" THEN StoreDefinitions(st, file_path, new)
    ELSE StoreUsages(st, file_path, new)

\* update_file on given content or on what the disk holds: the old entries
\* leave; the parser runs; if it raises, the with block is left there
update_file_from(st, file_path, content, file) ==
    LET r == ParseFor(file_path, content, file) IN
    [raised |-> r.raised,
     index |-> IF r.raised THEN Evict(st, file_path)
               ELSE Store(Evict(st, file_path), file_path, r.parsed)]

\* the two loops of build_full_index on what the disk holds, up to the first
\* read that raises
RECURSIVE index_files_from(_, _, _)
index_files_from(st, files, disk) ==
    IF files = <<>> THEN [raised |-> FALSE, index |-> st]
    ELSE LET f == Head(files)
             r == ParseFor(f, NoContent, disk[f])
         IN IF r.raised THEN [raised |-> TRUE, index |-> st]
            ELSE index_files_from(Store(st, f, r.parsed), Tail(files), disk)

\* if not self._workspace_root: return
RootAssumedSet(root) == TRUE

RootIsSet(root) == root # NoPath

build_full_index_from(st, root, disk) ==
    IF ~RootIsSet(root) THEN [raised |-> FALSE, index |-> st]
    ELSE index_files_from(ClearIndex(st), FoundSorted(disk), disk)

\* what a build finds: the files the globs return, each as a read finds it
FoundOnDisk == UNION {[found -> OnDisk] : found \in SUBSET DiskFiles}

\* HxRequestIndex(): no workspace root yet
DiskInit ==
    /\ definitions = EmptyDict
    /\ usages = EmptyDict
    /\ definitions_by_file = EmptyDict
    /\ usages_by_file = EmptyDict
    /\ indexed_python_files = {}
    /\ indexed_template_files = {}
    /\ build_pc = Idle
    /\ last = NoCall
    /\ lock_owner = NoThread
    /\ pc = [t \in Threads |-> "idle"]
    /\ call = [t \in Threads |-> NoArgs]
    /\ serial = EmptyIndex
    /\ committed = EmptyIndex
    /\ workspace_root = NoPath
    /\ outcome = NoOutcome
    /\ eval = NoEval
    /\ class_cache = EmptyDict
    /\ key_order = NoOrder

\* index.workspace_root = value: Path(value) if value else None
SetWorkspaceRoot ==
    /\ \E value \in {NoPath, "", WorkspaceRoot} :
        workspace_root' = IF value \in {NoPath, ""} THEN NoPath ELSE value
    /\ outcome' = [NoOutcome EXCEPT !.op = "set_root"]
    /\ UNCHANGED <<idx, seq_vars, conc_vars, eval, class_cache, key_order>>

DiskUpdateFile ==
    /\ \E file_path \in DiskFiles, content \in Given \cup {NoContent}, file \in OnDisk :
        /\ content # NoContent => file = FileMissing
        /\ LET r == update_file_from(IndexState, file_path, content, file) IN
            /\ SetIndex(r.index)
            /\ outcome' = [op |-> "update", raised |-> r.raised,
                            read |-> ReadKind(IF content # NoContent THEN content ELSE file)]
        /\ last' = CallRecord("update", file_path)
    /\ UNCHANGED <<build_pc, conc_vars, workspace_root, eval, class_cache, key_order>>

DiskBuildFullIndex ==
    /\ \E disk \in FoundOnDisk :
        /\ ~RootIsSet(workspace_root) => disk = <<>>
        /\ LET r == build_full_index_from(IndexState, workspace_root, disk) IN
            /\ SetIndex(r.index)
            /\ outcome' = [op |-> "build", raised |-> r.raised,
                            read |-> IF RootIsSet(workspace_root) THEN "root" ELSE "no_root"]
    /\ last' = [NoCall EXCEPT !.op = "build"]
    /\ UNCHANGED <<build_pc, conc_vars, workspace_root, eval, class_cache, key_order>>

DiskNext == SetWorkspaceRoot \/ DiskUpdateFile \/ DiskBuildFullIndex

DiskSpec == DiskInit /\ [][DiskNext]_vars

\* ------------------------------------- the server's handlers (ServerSpec)
\* a document URI: its scheme and its path component
Uris == [scheme : {"file"}, path : DiskFiles]

\* uri_to_path: the path component of the parsed URI
uri_to_path(uri) == uri.path

\* if params.root_uri / elif params.root_path: a string that is not empty
RootGiven(value) == value \notin {NoPath, ""}

\* initialize: the root is set from root_uri, else from root_path, else left
Initialize ==
    /\ \E root_uri \in {NoPath, WorkspaceRoot}, root_path \in {NoPath, "", WorkspaceRoot} :
        workspace_root' = IF RootGiven(root_uri) THEN root_uri
                          ELSE IF RootGiven(root_path) THEN root_path
                          ELSE workspace_root
    /\ outcome' = [NoOutcome EXCEPT !.op = "initialize"]
    /\ last' = [NoCall EXCEPT !.op = "initialize"]
    /\ UNCHANGED <<idx, build_pc, conc_vars, eval, class_cache, key_order>>

\* initialized: build_full_index on what the workspace holds
Initialized ==
    /\ \E disk \in FoundOnDisk :
        /\ ~RootIsSet(workspace_root) => disk = <<>>
        /\ LET r == build_full_index_from(IndexState, workspace_root, disk) IN
            /\ SetIndex(r.index)
            /\ outcome' = [op |-> "initialized", raised |-> r.raised,
                            read |-> IF RootIsSet(workspace_root) THEN "root" ELSE "no_root"]
    /\ last' = [NoCall EXCEPT !.op = "initialized"]
    /\ UNCHANGED <<build_pc, conc_vars, workspace_root, eval, class_cache, key_order>>

\* the handler's update_file call on the text of the notification
NotifyText(op, uri, text) ==
    LET file_path == uri_to_path(uri)
        r == update_file_from(IndexState, file_path, text, FileMissing)
    IN /\ SetIndex(r.index)
       /\ outcome' = [op |-> op, raised |-> r.raised, read |-> ReadKind(text)]
       /\ last' = CallRecord(op, file_path)

\* did_open: update_file(file_path, params.text_document.text)
did_open ==
    /\ \E uri \in Uris, text \in Given : NotifyText("did_open", uri, text)
    /\ UNCHANGED <<build_pc, conc_vars, workspace_root, eval, class_cache, key_order>>

\* did_change: the text of the first change, or "" if there is none
did_change ==
    /\ \E uri \in Uris, content_changes \in {<<>>} \cup {<<text>> : text \in Given} :
        NotifyText("did_change", uri,
                   IF content_changes # <<>> THEN content_changes[1] ELSE <<>>)
    /\ UNCHANGED <<build_pc, conc_vars, workspace_root, eval, class_cache, key_order>>

\* did_save: if params.text, update_file on it; else update_file from disk.
\* A text that declares something is not empty; one that declares nothing
\* may be "", which is read as no text
did_save ==
    /\ \E uri \in Uris, text \in Given \cup {NoContent}, file \in OnDisk, empty \in BOOLEAN :
        /\ empty => text = <<>>
        /\ LET with_text == text # NoContent /\ ~empty IN
            /\ with_text => file = FileMissing
            /\ ~with_text => text \in {NoContent, <<>>}
            /\ LET file_path == uri_to_path(uri)
                   r == update_file_from(IndexState, file_path,
                                         IF with_text THEN text ELSE NoContent, file)
               IN /\ SetIndex(r.index)
                  /\ outcome' = [op |-> "did_save", raised |-> r.raised,
                                  read |-> ReadKind(IF with_text THEN text ELSE file)]
                  /\ last' = CallRecord("did_save", file_path)
    /\ UNCHANGED <<build_pc, conc_vars, workspace_root, eval, class_cache, key_order>>

\* a close handler that takes the file out of the index
CloseRemovesFile(st, file_path) == remove_file(st, file_path)

\* what did_close does to the index: it writes a log line
CloseDocument(st, file_path) == st

\* did_close
did_close ==
    /\ \E uri \in Uris :
        /\ SetIndex(CloseDocument(IndexState, uri_to_path(uri)))
        /\ outcome' = [NoOutcome EXCEPT !.op = "did_close"]
        /\ last' = CallRecord("did_close", uri_to_path(uri))
    /\ UNCHANGED <<build_pc, conc_vars, workspace_root, eval, class_cache, key_order>>

ServerNext ==
    Initialize \/ Initialized \/ did_open \/ did_change \/ did_save \/ did_close

ServerSpec == DiskInit /\ [][ServerNext]_vars


\* ------------------------------------------- helper functions (EvalSpec)
MaxParts == 3   \* most segments of a path below the root

\* Path.parts of a resolved path: the root, then up to MaxParts segments
Segments == {"app1", "x", "hx_requests", "templates", "template_partials"}
Paths == {<<"/">> \o p : p \in UNION {[1..n -> Segments] : n \in 0..MaxParts}}

ReservedDirs == {"hx_requests", "templates", "template_partials"}
NoApp == "None"

\* the for loop of _extract_app_name from position i (1-based) on
RECURSIVE ExtractAppNameFrom(_, _)
ExtractAppNameFrom(parts, i) ==
    IF i > Len(parts) THEN NoApp
    ELSE IF parts[i] \in ReservedDirs /\ i > 1 THEN parts[i - 1]
    ELSE ExtractAppNameFrom(parts, i + 1)

RECURSIVE ExtractAppNameLast(_, _)
ExtractAppNameLast(parts, i) ==
    IF i > Len(parts) THEN NoApp
    ELSE LET rest == ExtractAppNameLast(parts, i + 1) IN
         IF rest # NoApp THEN rest
         ELSE IF parts[i] \in ReservedDirs /\ i > 1 THEN parts[i - 1] ELSE NoApp

ExtractAppNameOfLast(parts) == ExtractAppNameLast(parts, 1)

\* _extract_app_name
extract_app_name(parts) == ExtractAppNameFrom(parts, 1)

\* the files definitions come from and the files being edited, as Path.parts
DefinitionPaths == {<<"/", "app1", "hx_requests", "h.py">>,
                    <<"/", "app2", "hx_requests", "h.py">>,
                    <<"/", "app1", "hx_requests.py">>}
CurrentFiles == {<<"/", "app1", "templates", "t.html">>,
                 <<"/", "app2", "templates", "t.html">>,
                 <<"/", "x", "t.html">>}
NoFile == <<>>

\* the values of a name map: for each name, the file that defines it, if any
NameMaps == [Names -> DefinitionPaths \cup {NoFile}]
ValuesOf(name_map) ==
    {[name |-> n, file_path |-> name_map[n]] : n \in {m \in Names : name_map[m] # NoFile}}

SortedByNameOnly(all_defs, current_file) ==
    SortedBy(all_defs, [d \in all_defs |-> NameRank(d.name)])

\* get_definitions_sorted_by_relevance: sort key (is_same_app, name)
get_definitions_sorted_by_relevance(all_defs, current_file) ==
    IF current_file = NoFile
    THEN SortedBy(all_defs, [d \in all_defs |-> NameRank(d.name)])
    ELSE LET current_app == extract_app_name(current_file)
             is_same_app(d) == IF extract_app_name(d.file_path) = current_app THEN 0 ELSE 1
         IN SortedBy(all_defs,
                [d \in all_defs |-> is_same_app(d) * (Len(NamesSorted) + 1) + NameRank(d.name)])

EvalExtractAppName ==
    /\ eval.fn = "none"
    /\ \E parts \in Paths :
        eval' = [fn |-> "_extract_app_name", parts |-> parts,
                 result |-> extract_app_name(parts)]
    /\ UNCHANGED <<idx, seq_vars, conc_vars, workspace_root, outcome, class_cache, key_order>>

EvalSortedByRelevance ==
    /\ eval.fn = "none"
    /\ \E name_map \in NameMaps, current_file \in CurrentFiles \cup {NoFile} :
        eval' = [fn |-> "get_definitions_sorted_by_relevance",
                 all_defs |-> ValuesOf(name_map), current_file |-> current_file,
                 result |-> get_definitions_sorted_by_relevance(ValuesOf(name_map), current_file)]
    /\ UNCHANGED <<idx, seq_vars, conc_vars, workspace_root, outcome, class_cache, key_order>>

\* --- the definition parser on one class declaration
MaxBases == 2   \* most base expressions of a class declaration
MaxBody == 2    \* most statements of a class body

RecognizedSuffixes == {"HxRequest", "HxMixin", "Hx", "TabsRouter"}
\* str.endswith on the identifiers of the model
EndsWith(ident, suffix) ==
    <<ident, suffix>> \in {<<"BaseHxRequest", "HxRequest">>, <<"FormHxMixin", "HxMixin">>,
                          <<"ModalHx", "Hx">>, <<"MyTabsRouter", "TabsRouter">>}

\* base expressions: Name(id), Attribute(.., attr), Subscript(value, ..)
BaseExprs ==
    {[kind |-> "Name", value |-> "", id |-> "BaseHxRequest"],
     [kind |-> "Name", value |-> "", id |-> "View"],
     [kind |-> "Name", value |-> "", id |-> "HxRequestView"],
     [kind |-> "Attribute", value |-> "", id |-> "FormHxMixin"],
     [kind |-> "Subscript", value |-> "Name", id |-> "ModalHx"],
     [kind |-> "Subscript", value |-> "Attribute", id |-> "MyTabsRouter"]}

\* the values of string literals: empty, plain, dotted
StringLiterals == {"", "a", "a.b"}

\* statements of a class body: Assign(targets, value), AnnAssign(target,
\* value or nothing), anything else
Statements ==
    {[kind |-> "Assign", targets |-> {"name"}, value_kind |-> "str", value |-> v] :
        v \in StringLiterals}
    \cup {[kind |-> "Assign", targets |-> {"name"}, value_kind |-> "other", value |-> ""],
          [kind |-> "Assign", targets |-> {"other", "name"}, value_kind |-> "str", value |-> "a"],
          [kind |-> "Assign", targets |-> {"title"}, value_kind |-> "str", value |-> "a"],
          [kind |-> "AnnAssign", targets |-> {"name"}, value_kind |-> "str", value |-> "a"],
          [kind |-> "AnnAssign", targets |-> {"name"}, value_kind |-> "none", value |-> ""],
          [kind |-> "Other", targets |-> {}, value_kind |-> "none", value |-> ""]}

BaseLists == UNION {[1..n -> BaseExprs] : n \in 0..MaxBases}
Bodies == UNION {[1..n -> Statements] : n \in 0..MaxBody}

\* _get_base_class_names
RECURSIVE get_base_class_names(_)
get_base_class_names(bases) ==
    IF bases = <<>> THEN <<>>
    ELSE LET base == Head(bases) IN
         (IF base.kind \in {"Name", "Attribute"} THEN <<base.id>>
          ELSE IF base.kind = "Subscript" /\ base.value = "Name" THEN <<base.id>>
          ELSE <<>>)
         \o get_base_class_names(Tail(bases))

\* _extract_name_attribute: <<literal>> for the first string literal assigned
\* to name, <<>> for None
RECURSIVE extract_name_attribute(_)
extract_name_attribute(body) ==
    IF body = <<>> THEN <<>>
    ELSE LET item == Head(body) IN
         IF /\ item.kind \in {"Assign", "AnnAssign"}
            /\ "name" \in item.targets
            /\ item.value_kind = "str"
         THEN <<item.value>>
         ELSE extract_name_attribute(Tail(body))

\* if hx_name: a str is true unless it is empty
TruthyNotNone(hx_name) == hx_name # <<>>

Truthy(hx_name) == hx_name # <<>> /\ hx_name[1] # ""

\* visit_ClassDef without the test on the bases
VisitClassDefNoSuffixRule(node, file_path) ==
    LET hx_name == extract_name_attribute(node.body)
    IN IF Truthy(hx_name)
       THEN <<[name |-> hx_name[1], class_name |-> node.name,
               file_path |-> file_path, line_number |-> node.lineno]>>
       ELSE <<>>

\* visit_ClassDef: the definitions it appends for the class node
visit_ClassDef(node, file_path) ==
    LET base_class_names == get_base_class_names(node.bases)
        is_hx_request == \E i \in DOMAIN base_class_names :
                            \E suffix \in RecognizedSuffixes :
                                EndsWith(base_class_names[i], suffix)
        hx_name == extract_name_attribute(node.body)
    IN IF is_hx_request /\ Truthy(hx_name)
       THEN <<[name |-> hx_name[1], class_name |-> node.name,
               file_path |-> file_path, line_number |-> node.lineno]>>
       ELSE <<>>

EvalVisitClassDef ==
    /\ eval.fn = "none"
    /\ \E bases \in BaseLists, body \in Bodies :
        LET node == [name |-> "Foo", lineno |-> 1, bases |-> bases, body |-> body] IN
        eval' = [fn |-> "visit_ClassDef", node |-> node,
                 result |-> visit_ClassDef(node, PythonFilesSorted[1])]
    /\ UNCHANGED <<idx, seq_vars, conc_vars, workspace_root, outcome, class_cache, key_order>>

\* --- the template parser on one direct tag, and a build over one class
\* declaration and one tag
DirectTags == {"hx_post", "hx_get", "hx_request"}

\* "." in name, on the names of the model
ContainsDot(name) == name = "a.b"

\* HX_TAG_PATTERN on a line holding one tag {% keyword arg %}: the argument
\* is a non-empty quoted string or a bare identifier (dots allowed)
MatchesTagPattern(tag) == tag.keyword \in DirectTags /\ tag.arg # ""

\* parse_template_for_hx_requests on that line: a name with a dot (a variable
\* reference, a view. attribute) is skipped, quoted or not
parse_template_line(tag, file_path, line_num) ==
    IF MatchesTagPattern(tag) /\ ~ContainsDot(tag.arg)
    THEN <<[name |-> tag.arg, file_path |-> file_path, line_number |-> line_num,
            tag_type |-> tag.keyword]>>
    ELSE <<>>

\* build_full_index over a root holding one source file with one class and
\* one template with one tag
build_workspace(node, tag) ==
    StoreUsages(
        StoreDefinitions(ClearIndex(EmptyIndex), PythonFilesSorted[1],
                         visit_ClassDef(node, PythonFilesSorted[1])),
        TemplateFilesSorted[1],
        parse_template_line(tag, TemplateFilesSorted[1], 1))

EvalBuildEndToEnd ==
    /\ eval.fn = "none"
    /\ \E n \in StringLiterals, k \in DirectTags, quoted \in BOOLEAN,
          class_name \in {"Foo", "Bar"} :
        LET node == [name |-> class_name, lineno |-> 1,
                     bases |-> <<[kind |-> "Name", value |-> "", id |-> "BaseHxRequest"]>>,
                     body |-> <<[kind |-> "Assign", targets |-> {"name"},
                                 value_kind |-> "str", value |-> n]>>]
            tag == [keyword |-> k, quoted |-> quoted, arg |-> n]
        IN eval' = [fn |-> "build_full_index", n |-> n, k |-> k, tag |-> tag,
                    class_name |-> class_name, index |-> build_workspace(node, tag)]
    /\ UNCHANGED <<idx, seq_vars, conc_vars, workspace_root, outcome, class_cache, key_order>>

\* the function returns; the next application starts afresh
EvalReturn ==
    /\ eval.fn # "none"
    /\ eval' = NoEval
    /\ UNCHANGED <<idx, seq_vars, conc_vars, workspace_root, outcome, class_cache, key_order>>

EvalNext ==
    \/ EvalExtractAppName \/ EvalSortedByRelevance \/ EvalVisitClassDef
    \/ EvalBuildEndToEnd
    \/ EvalReturn

EvalSpec == Init /\ [][EvalNext]_vars

\* --------------------------------- the template parser on text (ParseSpec)
\* Text is a sequence of characters; positions are 0-based as in the code, so
\* the character at position p of line is line[p + 1].
MaxTags == 2   \* most template tags one template text holds

Letters == {"a", "b", "c", "d", "e", "f", "g", "h", "i", "j", "k", "l", "m", "n",
            "o", "p", "q", "r", "s", "t", "u", "v", "w", "x", "y", "z"}
Digits == {"0", "1", "2", "3", "4", "5", "6", "7", "8", "9"}
Quotes == {"'", "\""}
Whitespace == {" "}
NewLine == "\n"
IdentStart == Letters \cup {"_"}
IdentChars == Letters \cup Digits \cup {"_", "."}

\* line[p], or no character past the end
At(line, p) == IF p >= 0 /\ p < Len(line) THEN line[p + 1] ELSE "<end>"
\* line[a:b]
Slice(line, a, b) == [k \in 1..(b - a) |-> line[a + k]]
\* line.startswith(word, p)
StartsWithAt(line, word, p) ==
    /\ p + Len(word) <= Len(line)
    /\ \A k \in 1..Len(word) : line[p + k] = word[k]
Least(S) == CHOOSE x \in S : \A y \in S : x <= y

\* str.find(needle, start): the first position from start on, or -1
Find(line, needle, start) ==
    LET hits == {p \in start..(Len(line) - Len(needle)) : StartsWithAt(line, needle, p)}
    IN IF hits = {} THEN -1 ELSE Least(hits)

\* the end of the longest run of characters of class from position p on
RECURSIVE RunEnd(_, _, _)
RunEnd(line, p, class) ==
    IF At(line, p) \in class THEN RunEnd(line, p + 1, class) ELSE p

\* str.splitlines on texts whose only line boundary is "\n"
RECURSIVE SplitLinesFrom(_, _)
SplitLinesFrom(content, p) ==
    IF p >= Len(content) THEN <<>>
    ELSE LET found == Find(content, <<NewLine>>, p)
             stop == IF found = -1 THEN Len(content) ELSE found
         IN <<Slice(content, p, stop)>> \o SplitLinesFrom(content, stop + 1)
splitlines(content) == SplitLinesFrom(content, 0)

\* "." in name, name.startswith("view.")
HasDot(name) == \E k \in DOMAIN name : name[k] = "."
ViewPrefix == <<"v", "i", "e", "w", ".">>
StartsWithView(name) == StartsWithAt(name, ViewPrefix, 0)

\* the text of the tag keywords
KeywordText ==
    [k \in DirectTags \cup {"hx_vals"} |->
        CASE k = "hx_post" -> <<"h", "x", "_", "p", "o", "s", "t">>
          [] k = "hx_get" -> <<"h", "x", "_", "g", "e", "t">>
          [] k = "hx_request" -> <<"h", "x", "_", "r", "e", "q", "u", "e", "s", "t">>
          [] k = "hx_vals" -> <<"h", "x", "_", "v", "a", "l", "s">>]
KeywordArgText ==
    <<"h", "x", "_", "r", "e", "q", "u", "e", "s", "t", "_", "n", "a", "m", "e">>
TagOpen == <<"{", "%">>

\* the end of the longest run of characters outside class from position p on
RECURSIVE RunEndNot(_, _, _)
RunEndNot(line, p, class) ==
    IF p < Len(line) /\ At(line, p) \notin class THEN RunEndNot(line, p + 1, class) ELSE p

\* the name alternative of both patterns at position p:
\*   ['"]([^'"]+)['"] | ([a-zA-Z_][a-zA-Z0-9_.]*)
\* <<[name, arg_start, end, quoted]>> for a match, <<>> for none
NameAt(line, p) ==
    LET r == RunEndNot(line, p + 1, Quotes)
        e == RunEnd(line, p + 1, IdentChars)
    IN IF At(line, p) \in Quotes /\ r > p + 1 /\ At(line, r) \in Quotes
       THEN <<[name |-> Slice(line, p + 1, r), arg_start |-> p + 1, end |-> r + 1,
               quoted |-> TRUE]>>
       ELSE IF At(line, p) \in IdentStart
       THEN <<[name |-> Slice(line, p, e), arg_start |-> p, end |-> e, quoted |-> FALSE]>>
       ELSE <<>>

\* HX_TAG_PATTERN anchored at position p
TagPatternAt(line, p) ==
    LET q1 == RunEnd(line, p + 2, Whitespace)
        kws == {k \in DirectTags : StartsWithAt(line, KeywordText[k], q1)}
    IN IF ~StartsWithAt(line, TagOpen, p) \/ kws = {} THEN <<>>
       ELSE LET k == CHOOSE k \in kws : TRUE
                q2 == q1 + Len(KeywordText[k])
                q3 == RunEnd(line, q2, Whitespace)
                arg == NameAt(line, q3)
            IN IF q3 = q2 \/ arg = <<>> THEN <<>>
               ELSE <<[start |-> p, end |-> arg[1].end, tag_type |-> k,
                       name |-> arg[1].name, arg_start |-> arg[1].arg_start,
                       quoted |-> arg[1].quoted]>>

\* hx_request_name\s*=\s*(name alternative) anchored at position j
KeywordArgAt(line, j) ==
    LET s1 == RunEnd(line, j + Len(KeywordArgText), Whitespace)
        s2 == RunEnd(line, s1 + 1, Whitespace)
    IN IF StartsWithAt(line, KeywordArgText, j) /\ At(line, s1) = "="
       THEN NameAt(line, s2)
       ELSE <<>>

\* HX_VALS_PATTERN anchored at position p: the lazy .*? stops at the first
\* position where the keyword argument matches
ValsPatternAt(line, p) ==
    LET q1 == RunEnd(line, p + 2, Whitespace)
        q2 == q1 + Len(KeywordText["hx_vals"])
        at == {j \in (q2 + 1)..Len(line) : KeywordArgAt(line, j) # <<>>}
    IN IF \/ ~StartsWithAt(line, TagOpen, p)
          \/ ~StartsWithAt(line, KeywordText["hx_vals"], q1)
          \/ At(line, q2) \notin Whitespace
          \/ at = {}
       THEN <<>>
       ELSE LET arg == KeywordArgAt(line, Least(at))
            IN <<[start |-> p, end |-> arg[1].end, tag_type |-> "hx_vals",
                  name |-> arg[1].name, arg_start |-> arg[1].arg_start,
                  quoted |-> arg[1].quoted]>>

\* pattern.finditer(line): the matches from left to right, none overlapping;
\* both patterns begin with the literal {%, so a match starts at one
RECURSIVE TagMatchesFrom(_, _)
TagMatchesFrom(line, p) ==
    LET q == Find(line, TagOpen, p)
        m == TagPatternAt(line, q)
    IN IF q = -1 THEN <<>>
       ELSE IF m = <<>> THEN TagMatchesFrom(line, q + 1)
       ELSE m \o TagMatchesFrom(line, m[1].end)

RECURSIVE ValsMatchesFrom(_, _)
ValsMatchesFrom(line, p) ==
    LET q == Find(line, TagOpen, p)
        m == ValsPatternAt(line, q)
    IN IF q = -1 THEN <<>>
       ELSE IF m = <<>> THEN ValsMatchesFrom(line, q + 1)
       ELSE m \o ValsMatchesFrom(line, m[1].end)

\* _find_name_position that returns the position of the opening quote
FindNamePositionAtQuote(line, search_start, name) ==
    LET single == Find(line, <<"'">> \o name \o <<"'">>, search_start)
        double == Find(line, <<"\"">> \o name \o <<"\"">>, search_start)
        bare == Find(line, name, search_start)
    IN IF single # -1 THEN single
       ELSE IF double # -1 THEN double
       ELSE IF bare # -1 THEN bare ELSE search_start

\* _find_name_position: the name in single quotes, else in double quotes,
\* else bare, each searched from the start of the match
find_name_position(line, search_start, name) ==
    LET single == Find(line, <<"'">> \o name \o <<"'">>, search_start)
        double == Find(line, <<"\"">> \o name \o <<"\"">>, search_start)
        bare == Find(line, name, search_start)
    IN IF single # -1 THEN single + 1
       ELSE IF double # -1 THEN double + 1
       ELSE IF bare # -1 THEN bare ELSE search_start

\* HxRequestUsage(...) for a match; arg_start is match.start() of the name
\* group, which the code does not store
UsageOf(match, line, line_num, file_path) ==
    LET name_start == find_name_position(line, match.start, match.name)
    IN [name |-> match.name, file_path |-> file_path, line_number |-> line_num,
        column |-> name_start, end_column |-> name_start + Len(match.name),
        tag_type |-> match.tag_type,
        full_match |-> Slice(line, match.start, match.end),
        arg_start |-> match.arg_start]

\* the loop over HX_TAG_PATTERN.finditer(line)
RECURSIVE TagUsages(_, _, _, _)
TagUsages(matches, line, line_num, file_path) ==
    IF matches = <<>> THEN <<>>
    ELSE LET name == Head(matches).name
             rest == TagUsages(Tail(matches), line, line_num, file_path)
         IN IF name = <<>> THEN rest
            ELSE IF HasDot(name) /\ ~StartsWithView(name) THEN rest
            ELSE IF StartsWithView(name) THEN rest
            ELSE <<UsageOf(Head(matches), line, line_num, file_path)>> \o rest

\* the loop over HX_VALS_PATTERN.finditer(line)
RECURSIVE ValsUsages(_, _, _, _)
ValsUsages(matches, line, line_num, file_path) ==
    IF matches = <<>> THEN <<>>
    ELSE LET name == Head(matches).name
             rest == ValsUsages(Tail(matches), line, line_num, file_path)
         IN IF name # <<>> /\ ~HasDot(name)
            THEN <<UsageOf(Head(matches), line, line_num, file_path)>> \o rest
            ELSE rest

\* the body of the loop over the lines, from line line_num on
RECURSIVE LineUsages(_, _, _)
LineUsages(lines, line_num, file_path) ==
    IF line_num > Len(lines) THEN <<>>
    ELSE LET line == lines[line_num]
         IN TagUsages(TagMatchesFrom(line, 0), line, line_num, file_path)
            \o ValsUsages(ValsMatchesFrom(line, 0), line, line_num, file_path)
            \o LineUsages(lines, line_num + 1, file_path)

\* parse_template_for_hx_requests on the characters of the content
parse_template_text(content, file_path) == LineUsages(splitlines(content), 1, file_path)

\* template texts: up to MaxTags tags, each after a blank or on a new line.
\* The first tag takes every form; a later tag takes the forms a search from
\* an earlier tag can run into (the searches only go forward).
ArgNames == {<<"a">>, <<"p", "o", "s", "t">>, <<"a", ".", "b">>,
             <<"v", "i", "e", "w", ".", "a">>}
TemplateTags ==
    [keyword : DirectTags \cup {"hx_vals"}, quote : {<<"'">>, <<"\"">>, <<>>},
     arg : ArgNames, before : {<<" ">>, <<NewLine>>}]
FollowingTags ==
    {tag \in TemplateTags :
        /\ tag.keyword \in {"hx_get", "hx_vals"}
        /\ \/ tag.arg = <<"a">>
           \/ tag.arg = <<"a", ".", "b">> /\ tag.quote = <<"'">> /\ tag.before = <<" ">>}
\* {% keyword 'arg' %} and {% hx_vals hx_request_name='arg' %}
Render(tag) ==
    tag.before \o TagOpen \o <<" ">> \o KeywordText[tag.keyword] \o <<" ">>
    \o (IF tag.keyword = "hx_vals" THEN KeywordArgText \o <<"=">> ELSE <<>>)
    \o tag.quote \o tag.arg \o tag.quote \o <<" ", "%", "}">>
RECURSIVE RenderAll(_)
RenderAll(tags) == IF tags = <<>> THEN <<>> ELSE Render(Head(tags)) \o RenderAll(Tail(tags))
\* the texts: no tag, or a first tag and up to MaxTags - 1 later tags
ParseTemplateText ==
    /\ eval.fn = "none"
    /\ \E lead \in {<<>>} \cup {<<tag>> : tag \in TemplateTags} :
        \E n \in 0..(IF lead = <<>> THEN 0 ELSE MaxTags - 1) :
            \E rest \in [1..n -> FollowingTags] :
                LET content == RenderAll(lead \o rest) IN
                eval' = [fn |-> "parse_template_for_hx_requests", content |-> content,
                         result |-> parse_template_text(content, TemplateFilesSorted[1])]
    /\ UNCHANGED <<idx, seq_vars, conc_vars, workspace_root, outcome, class_cache, key_order>>

ParseReturn ==
    /\ eval.fn = "parse_template_for_hx_requests"
    /\ eval' = NoEval
    /\ UNCHANGED <<idx, seq_vars, conc_vars, workspace_root, outcome, class_cache, key_order>>

ParseNext == ParseTemplateText \/ ParseReturn

ParseSpec == Init /\ [][ParseNext]_vars

\* ------------------------------ the base class resolver (ResolveSpec)
\* A path is the sequence of its segments, the suffix ".py" of a module file
\* being a segment of its own.  The files the resolver can read are the
\* referencing file, an installed module with one sibling file in its
\* package directory, and under the workspace root a package directory and a
\* module file for the same dotted module path.
ClassNames == {"Base", "Other"}
NoLine == 0   \* line_number=None; lines are 1-based
NoModule == <<>>
ImportedModule == <<"pkg", "mod">>
RootPath == <<"/ws">>
SourceFile == RootPath \o <<"app1", "hx_requests", ".py">>
LibDir == <<"/site-packages", "pkg">>
LibFile == LibDir \o <<"mod", ".py">>
LibSibling == LibDir \o <<"views", ".py">>
WsPackage == RootPath \o ImportedModule
WsInit == WsPackage \o <<"__init__.py">>
WsExtra == WsPackage \o <<"extra", ".py">>
WsFile == RootPath \o ImportedModule \o <<".py">>

\* what is on disk and installed: the classes the referencing file declares,
\* the names it imports from ImportedModule, where the installed module
\* declares Base (or that it is not installed, or that importing its parent
\* package raises), where the workspace package and the workspace module
\* file declare Base (or that they do not exist), and the root
Envs ==
    [local : SUBSET ClassNames,
     imported : SUBSET ClassNames,
     lib : {"absent", "raises", "none", "own", "sibling"},
     pkg : {"absent", "none", "init", "extra"},
     file : {"absent", "none", "declared"},
     root : {RootPath, <<>>}]

DeclLine == [n \in ClassNames |-> IF n = "Base" THEN 2 ELSE 5]
Declares(names, line) == [n \in names |-> line]

\* Path.exists, Path.is_file, Path.is_dir
IsFile(env, path) ==
    \/ path = SourceFile
    \/ path \in {LibFile, LibSibling} /\ env.lib \in {"none", "own", "sibling"}
    \/ path \in {WsInit, WsExtra} /\ env.pkg # "absent"
    \/ path = WsFile /\ env.file # "absent"
IsDir(env, path) ==
    \/ path = LibDir /\ env.lib \in {"none", "own", "sibling"}
    \/ path = WsPackage /\ env.pkg # "absent"
Exists(env, path) == IsFile(env, path) \/ IsDir(env, path)

\* what a parse of the referencing file returns: the map the environment
\* gives, or its local classes at their lines
SourceClasses(env) ==
    IF "classes" \in DOMAIN env THEN env.classes
    ELSE [n \in env.local |-> DeclLine[n]]

\* _parse_file_for_classes: the map from class name to line, {} for a file
\* that cannot be read
parse_file_for_classes(env, file_path) ==
    IF ~IsFile(env, file_path) THEN EmptyDict
    ELSE IF file_path = SourceFile THEN SourceClasses(env)
    ELSE IF file_path = LibFile /\ env.lib = "own" THEN Declares({"Base"}, 3)
    ELSE IF file_path = LibSibling /\ env.lib = "sibling" THEN Declares({"Base"}, 4)
    ELSE IF file_path = WsInit /\ env.pkg = "init" THEN Declares({"Base"}, 6)
    ELSE IF file_path = WsExtra /\ env.pkg = "extra" THEN Declares({"Base"}, 7)
    ELSE IF file_path = WsFile /\ env.file = "declared" THEN Declares({"Base"}, 8)
    ELSE EmptyDict

\* the outcome of a lookup: found is <<[file_path, line_number]>> or <<>>
NotFound == [raised |-> FALSE, found |-> <<>>]
Raised == [raised |-> TRUE, found |-> <<>>]
FoundAt(file_path, line) ==
    [raised |-> FALSE, found |-> <<[file_path |-> file_path, line_number |-> line]>>]

\* the first file of files that declares class_name
RECURSIVE FirstDeclaring(_, _, _)
FirstDeclaring(env, files, class_name) ==
    IF files = <<>> THEN NotFound
    ELSE LET classes == parse_file_for_classes(env, Head(files))
         IN IF class_name \in DOMAIN classes
            THEN FoundAt(Head(files), classes[class_name])
            ELSE FirstDeclaring(env, Tail(files), class_name)

\* _find_module_path: importlib.util.find_spec imports the parent package,
\* and an exception of that import other than ImportError and ValueError
\* is not caught
find_module_path(env, module_name) ==
    IF module_name # ImportedModule \/ env.lib = "absent"
    THEN [raised |-> FALSE, path |-> <<>>]
    ELSE IF env.lib = "raises" THEN [raised |-> TRUE, path |-> <<>>]
    ELSE [raised |-> FALSE, path |-> LibFile]

\* Path.parent, and the *.py files of a directory as glob and rglob list them
Parent(path) ==
    SubSeq(path, 1, Len(path) - (IF path[Len(path)] = ".py" THEN 2 ELSE 1))
Glob(env, dir) ==
    IF ~IsDir(env, dir) THEN <<>>
    ELSE IF dir = LibDir THEN <<LibFile, LibSibling>>
    ELSE <<WsInit, WsExtra>>

\* _find_class_in_installed_module: the module file, then pkg_dir.rglob("*.py")
find_class_in_installed_module(env, module_name, class_name) ==
    LET module_path == find_module_path(env, module_name)
    IN IF module_path.raised THEN Raised
       ELSE IF module_path.path = <<>> THEN NotFound
       ELSE FirstDeclaring(env, <<module_path.path>> \o Glob(env, Parent(module_path.path)),
                           class_name)

\* _find_class_in_module: a file, or a directory's __init__.py and then
\* module_path.glob("*.py")
find_class_in_module(env, module_path, class_name) ==
    IF IsFile(env, module_path) THEN FirstDeclaring(env, <<module_path>>, class_name)
    ELSE IF IsDir(env, module_path)
    THEN FirstDeclaring(env,
            (IF Exists(env, module_path \o <<"__init__.py">>)
             THEN <<module_path \o <<"__init__.py">> >> ELSE <<>>)
            \o Glob(env, module_path), class_name)
    ELSE NotFound

\* a tier that finds nothing
SameFileTierSkipped(env, class_name, source_file) == NotFound

\* 1. the class is declared in the referencing file
SameFileTier(env, class_name, source_file) ==
    FirstDeclaring(env, <<source_file>>, class_name)

LibraryTierSkipped(env, class_name, imports) == NotFound

\* 2. the import map names an installed module that declares the class
LibraryTier(env, class_name, imports) ==
    IF class_name \in DOMAIN imports
    THEN find_class_in_installed_module(env, imports[class_name], class_name)
    ELSE NotFound

\* possible_paths: package __init__.py, module file, and for a dotted module
\* path the last segment as a file under the parent package
PossiblePaths(workspace, module_parts) ==
    <<workspace \o module_parts \o <<"__init__.py">>,
      workspace \o module_parts \o <<".py">> >>
    \o (IF Len(module_parts) > 1
        THEN <<workspace \o SubSeq(module_parts, 1, Len(module_parts) - 1)
               \o <<module_parts[Len(module_parts)], ".py">> >>
        ELSE <<>>)

\* the loop over possible_paths: every existing path is scanned until one
\* declares the class
RECURSIVE ScanPaths(_, _, _)
ScanPaths(env, paths, class_name) ==
    IF paths = <<>> THEN NotFound
    ELSE LET path == Head(paths)
             result == find_class_in_module(env,
                          IF path[Len(path)] = "__init__.py" THEN Parent(path) ELSE path,
                          class_name)
         IN IF Exists(env, path) /\ result.found # <<>> THEN result
            ELSE ScanPaths(env, Tail(paths), class_name)

\* 3. the workspace holds the imported module
WorkspaceTier(env, class_name, imports, root) ==
    IF class_name \in DOMAIN imports /\ root # <<>>
    THEN ScanPaths(env, PossiblePaths(root, imports[class_name]), class_name)
    ELSE NotFound

\* BaseClassInfo(name, file_path, line_number)
BaseClassInfo(name, lookup) ==
    IF lookup.found = <<>>
    THEN [name |-> name, file_path |-> <<>>, line_number |-> NoLine]
    ELSE [name |-> name, file_path |-> lookup.found[1].file_path,
          line_number |-> lookup.found[1].line_number]

\* resolve_base_class: [raised, info, tier]; tier names the tier that
\* returned, which the code does not record
resolve_base_class(env, class_name, source_file, imports, root) ==
    LET same == SameFileTier(env, class_name, source_file)
        library == LibraryTier(env, class_name, imports)
        workspace == WorkspaceTier(env, class_name, imports, root)
    IN IF same.found # <<>>
       THEN [raised |-> FALSE, info |-> BaseClassInfo(class_name, same), tier |-> "same file"]
       ELSE IF library.raised
       THEN [raised |-> TRUE, info |-> BaseClassInfo(class_name, NotFound), tier |-> "library"]
       ELSE IF library.found # <<>>
       THEN [raised |-> FALSE, info |-> BaseClassInfo(class_name, library), tier |-> "library"]
       ELSE IF workspace.found # <<>>
       THEN [raised |-> FALSE, info |-> BaseClassInfo(class_name, workspace),
             tier |-> "workspace"]
       ELSE [raised |-> FALSE, info |-> BaseClassInfo(class_name, NotFound), tier |-> "none"]

\* resolve_all_base_classes: one BaseClassInfo per name, in order; an
\* exception of one resolution leaves the list comprehension
RECURSIVE resolve_all_base_classes(_, _, _, _, _)
resolve_all_base_classes(env, base_class_names, source_file, imports, root) ==
    IF base_class_names = <<>> THEN [raised |-> FALSE, info |-> <<>>, tiers |-> <<>>]
    ELSE LET first == resolve_base_class(env, Head(base_class_names), source_file,
                                         imports, root)
             rest == resolve_all_base_classes(env, Tail(base_class_names), source_file,
                                              imports, root)
         IN IF first.raised \/ rest.raised
            THEN [raised |-> TRUE, info |-> <<>>, tiers |-> <<>>]
            ELSE [raised |-> FALSE, info |-> <<first.info>> \o rest.info,
                  tiers |-> <<first.tier>> \o rest.tiers]

\* the import map of the referencing file: visit_ImportFrom
ImportMap(env) == [n \in env.imported |-> ImportedModule]

\* parse_hx_requests_from_source, from the visitor's definitions on: the
\* base_class_info of a definition with the given base_classes; calls holds
\* what each call of resolve_base_class returned
ResolveBaseClasses ==
    /\ eval.fn = "none"
    /\ \E env \in Envs, n \in 1..MaxBases :
        \E base_classes \in [1..n -> ClassNames] :
            eval' = [fn |-> "resolve_all_base_classes", env |-> env,
                     base_classes |-> base_classes,
                     calls |-> [i \in DOMAIN base_classes |->
                                  resolve_base_class(env, base_classes[i], SourceFile,
                                                     ImportMap(env), env.root)],
                     result |-> resolve_all_base_classes(env, base_classes, SourceFile,
                                                         ImportMap(env), env.root)]
    /\ UNCHANGED <<idx, seq_vars, conc_vars, workspace_root, outcome, class_cache, key_order>>

ResolveReturn ==
    /\ eval.fn = "resolve_all_base_classes"
    /\ eval' = NoEval
    /\ UNCHANGED <<idx, seq_vars, conc_vars, workspace_root, outcome, class_cache, key_order>>

ResolveNext == ResolveBaseClasses \/ ResolveReturn

ResolveSpec == Init /\ [][ResolveNext]_vars

\* ------------------- update_file on an edited source file (EditSpec)
\* what a text of the referencing file declares: classes at their lines
ClassMaps == UNION {[declared -> {2, 5}] : declared \in SUBSET ClassNames}

\* the rest of the environment of a call: the import map of the text and
\* the installed module
EditEnvs ==
    {env \in Envs : /\ env.local = {}
                    /\ env.imported \in {{}, {"Base"}}
                    /\ env.lib \in {"absent", "own"}
                    /\ env.pkg = "absent"
                    /\ env.file = "absent"
                    /\ env.root = RootPath}

\* _parse_file_for_classes under lru_cache: a path parsed earlier in the
\* process returns the earlier result; otherwise the file on disk is parsed
\* and the result is kept
ParseFileCached(cache, on_disk, file_path) ==
    IF file_path \in DOMAIN cache
    THEN [classes |-> cache[file_path], cache |-> cache]
    ELSE [classes |-> on_disk, cache |-> DictPut(cache, file_path, on_disk)]

\* a resolver that looks for the classes in the text it was handed
ClassesOfText(text_classes, parsed) == text_classes

\* the classes the same-file tier of resolve_base_class looks in: those of
\* its own parse of source_file, whatever text update_file was given
ClassesSeen(text_classes, parsed) == parsed

\* update_file(SourceFile, text): the text declares classes and one handler
\* at line 7 with the given bases; every base is resolved and the Definition
\* stored.  on_disk is what the file holds at the time of the call, which
\* matters only to a call that reads it.
UpdateEditedFile ==
    /\ eval.fn = "none"
    /\ \E classes \in ClassMaps, rest \in EditEnvs, n \in 1..MaxBases :
        \E base_classes \in [1..n -> ClassNames],
           on_disk \in (IF SourceFile \in DOMAIN class_cache THEN {EmptyDict} ELSE ClassMaps) :
            LET parse == ParseFileCached(class_cache, on_disk, SourceFile)
                seen == ClassesSeen(classes, parse.classes)
                env == [local |-> DOMAIN seen, imported |-> rest.imported,
                        lib |-> rest.lib, pkg |-> rest.pkg, file |-> rest.file,
                        root |-> rest.root, classes |-> seen]
                resolved == resolve_all_base_classes(env, base_classes, SourceFile,
                                                     ImportMap(env), env.root)
                definition == [name |-> "a", file_path |-> SourceFile, line_number |-> 7,
                               base_classes |-> base_classes,
                               base_class_info |-> resolved.info]
                evicted == EvictDefinitions(IndexState, SourceFile)
            IN /\ SetIndex(IF resolved.raised THEN evicted
                           ELSE StoreDefinitions(evicted, SourceFile, <<definition>>))
               /\ class_cache' = parse.cache
               /\ eval' = [fn |-> "update_file", classes |-> classes,
                           from_cache |-> SourceFile \in DOMAIN class_cache,
                           raised |-> resolved.raised]
    /\ UNCHANGED <<seq_vars, conc_vars, workspace_root, outcome, key_order>>

EditReturn ==
    /\ eval.fn = "update_file"
    /\ eval' = NoEval
    /\ UNCHANGED <<idx, seq_vars, conc_vars, workspace_root, outcome, class_cache, key_order>>

\* lru_cache(maxsize=256): parses of other paths push the entry out
EvictCacheEntry ==
    /\ eval.fn = "none"
    /\ class_cache # EmptyDict
    /\ class_cache' = EmptyDict
    /\ UNCHANGED <<idx, seq_vars, conc_vars, workspace_root, outcome, eval, key_order>>

EditNext == UpdateEditedFile \/ EditReturn \/ EvictCacheEntry

EditSpec == Init /\ [][EditNext]_vars


\* ------------------- update_file and remove_file on any path (PathSpec)
\* A path here is the sequence of its segments below the workspace root (or
\* below another directory), the suffix of the file name being the last
\* segment when the name has one.
OutsideRoot == <<"/elsewhere">>

OpenPaths ==
    {RootPath \o <<"app1", "hx_requests", ".py">>,
     RootPath \o <<"app1", "hx_requests", "h", ".py">>,
     RootPath \o <<"app1", "views", ".py">>,
     OutsideRoot \o <<"app1", "hx_requests", ".py">>,
     RootPath \o <<"app1", "templates", "t", ".html">>,
     RootPath \o <<"app1", "template_partials", "sub", "t", ".html">>,
     RootPath \o <<"app1", "static", "t", ".html">>,
     RootPath \o <<"notes", ".txt">>,
     RootPath \o <<"Makefile">>}

\* Path.suffix
FileSuffix(path) ==
    IF path[Len(path)] \in {".py", ".html", ".txt"} THEN path[Len(path)] ELSE ""

\* the directories of a path below root, and the stem of its file name
DirsBelow(root, path) ==
    SubSeq(path, Len(root) + 1, Len(path) - (IF FileSuffix(path) = "" THEN 1 ELSE 2))
Stem(path) == path[Len(path) - (IF FileSuffix(path) = "" THEN 0 ELSE 1)]
IsUnder(root, path) ==
    Len(path) > Len(root) /\ SubSeq(path, 1, Len(root)) = root

\* find_hx_request_files(root) holds path: a file named hx_requests.py or a
\* .py file below a directory hx_requests, not in a __pycache__
InHxRequestFiles(root, path) ==
    /\ IsUnder(root, path)
    /\ FileSuffix(path) = ".py"
    /\ \/ Stem(path) = "hx_requests"
       \/ "hx_requests" \in Range(DirsBelow(root, path))
    /\ "__pycache__" \notin Range(path)

\* find_template_files(root) holds path: an .html file below a directory
\* templates or template_partials
InTemplateFiles(root, path) ==
    /\ IsUnder(root, path)
    /\ FileSuffix(path) = ".html"
    /\ Range(DirsBelow(root, path)) \cap {"templates", "template_partials"} # {}
    /\ "__pycache__" \notin Range(path)

\* an update_file that looks at the convention before it indexes
UpdateFileConventionOnly(st, path, source) ==
    IF InHxRequestFiles(RootPath, path) THEN update_python_file(st, path, source)
    ELSE IF InTemplateFiles(RootPath, path) THEN update_template_file(st, path, source)
    ELSE st

\* an update_file that indexes a path of any suffix as a source file
UpdateFileAnySuffix(st, path, source) == update_python_file(st, path, source)

\* update_file: file_path.suffix decides, nothing else of the path is looked at
UpdateFilePath(st, path, source) ==
    IF FileSuffix(path) = ".py" THEN update_python_file(st, path, source)
    ELSE IF FileSuffix(path) = ".html" THEN update_template_file(st, path, source)
    ELSE st

PathCall(op, path) == [NoCall EXCEPT !.op = op, !.file_path = path]

\* update_file(path, content) on a path an editor may hand over
UpdateAnyPath ==
    /\ \E path \in OpenPaths, source \in {<<>>, <<"a">>} :
        /\ SetIndex(UpdateFilePath(IndexState, path, source))
        /\ last' = PathCall("update", path)
    /\ UNCHANGED <<build_pc, conc_vars, aux_vars>>

\* remove_file(path)
RemoveAnyPath ==
    /\ \E path \in OpenPaths :
        /\ SetIndex(remove_file(IndexState, path))
        /\ last' = PathCall("remove", path)
    /\ UNCHANGED <<build_pc, conc_vars, aux_vars>>

\* the files a build finds below the root, sorted, sources before templates
RECURSIVE SortedPaths(_)
SortedPaths(S) ==
    IF S = {} THEN <<>>
    ELSE LET first == CHOOSE p \in S : \A q \in S :
                        \/ FileSuffix(p) = ".py" /\ FileSuffix(q) = ".html"
                        \/ FileSuffix(p) = FileSuffix(q) /\ Len(p) <= Len(q)
         IN <<first>> \o SortedPaths(S \ {first})

RECURSIVE IndexFound(_, _)
IndexFound(st, found) ==
    IF found = <<>> THEN st
    ELSE IndexFound(IF FileSuffix(Head(found)) = ".py"
                    THEN index_python_file(st, Head(found), <<"a">>)
                    ELSE index_template_file(st, Head(found), <<"a">>),
                    Tail(found))

\* build_full_index: the maps are cleared and the files the two searches
\* find below the root are indexed
BuildFromRoot ==
    /\ \E found \in SUBSET {p \in OpenPaths : \/ InHxRequestFiles(RootPath, p)
                                                \/ InTemplateFiles(RootPath, p)} :
        SetIndex(IndexFound(ClearIndex(IndexState), SortedPaths(found)))
    /\ last' = [NoCall EXCEPT !.op = "build"]
    /\ UNCHANGED <<build_pc, conc_vars, aux_vars>>

PathNext == UpdateAnyPath \/ RemoveAnyPath \/ BuildFromRoot

PathSpec == Init /\ [][PathNext]_vars


\* --------------------- the key order of the two name maps (OrderSpec)
\* A dict keeps its keys in insertion order: del takes a key out, an
\* assignment to a present key leaves it in place, a new key goes last.
\* get_all_definitions, find_unused_definitions and find_undefined_usages
\* return their results in that order.
KeysAfterDelete(order, d) ==
    LET Present(k) == k \in DOMAIN d IN SelectSeq(order, Present)

RECURSIVE KeysAfterInsert(_, _)
KeysAfterInsert(order, names) ==
    IF names = <<>> THEN order
    ELSE KeysAfterInsert(IF Head(names) \in Range(order) THEN order
                         ELSE Append(order, Head(names)),
                         Tail(names))

\* the key order after update_file(file_path, source) on index st
OrderAfterUpdate(order, st, file_path, source) ==
    IF Suffix(file_path) = ".py"
    THEN [order EXCEPT !.definitions =
            KeysAfterInsert(
                KeysAfterDelete(order.definitions,
                                EvictDefinitions(st, file_path).definitions),
                source)]
    ELSE IF Suffix(file_path) = ".html"
    THEN [order EXCEPT !.usages =
            KeysAfterInsert(
                KeysAfterDelete(order.usages, EvictUsages(st, file_path).usages),
                source)]
    ELSE order

\* the key order after remove_file(file_path) on index st
OrderAfterRemove(order, st, file_path) ==
    [definitions |-> KeysAfterDelete(order.definitions, remove_file(st, file_path).definitions),
     usages |-> KeysAfterDelete(order.usages, remove_file(st, file_path).usages)]

\* get_all_definitions: list(self._definitions.values())
get_all_definitions(st, order) ==
    [i \in DOMAIN order.definitions |-> st.definitions[order.definitions[i]]]

\* find_unused_definitions and find_undefined_usages in the order of the keys
FindUnusedInOrder(st, order) ==
    Extend([n \in DOMAIN st.definitions |-> <<st.definitions[n]>>], order.definitions,
           {n \in DOMAIN st.definitions : n \notin DOMAIN st.usages \/ st.usages[n] = <<>>})

FindUndefinedInOrder(st, order) ==
    Extend(st.usages, order.usages,
           {n \in DOMAIN st.usages : n \notin DOMAIN st.definitions})

\* the source texts of OrderSpec: a second file can take a name over
OrderSourcesOf(file_path) ==
    IF file_path \in PyFiles THEN {<<>>, <<"a">>, <<"a", "b">>}
    ELSE {<<>>, <<"a">>, <<"a", "a">>}

\* the text a file was last updated with, read off its per-file list
NamesOf(list) == [i \in DOMAIN list |-> list[i].name]
TextOf(st, file_path) ==
    IF Suffix(file_path) = ".py" THEN NamesOf(get_definitions_in_file(st, file_path))
    ELSE NamesOf(get_usages_in_file(st, file_path))

\* update_file(file_path, content)
OrderedUpdate ==
    /\ \E file_path \in Files :
        \E source \in OrderSourcesOf(file_path) :
            /\ SetIndex(update_file(IndexState, file_path, source))
            /\ key_order' = OrderAfterUpdate(key_order, IndexState, file_path, source)
            /\ last' = CallRecord("update", file_path)
    /\ UNCHANGED <<build_pc, conc_vars, workspace_root, outcome, eval, class_cache>>

\* update_file called once more with the file and the text of the call before
OrderedUpdateAgain ==
    /\ last.op = "update"
    /\ LET file_path == last.file_path
           source == TextOf(IndexState, file_path)
       IN /\ SetIndex(update_file(IndexState, file_path, source))
          /\ key_order' = OrderAfterUpdate(key_order, IndexState, file_path, source)
          /\ last' = CallRecord("again", file_path)
    /\ UNCHANGED <<build_pc, conc_vars, workspace_root, outcome, eval, class_cache>>

\* remove_file(file_path)
OrderedRemove ==
    /\ \E file_path \in Files :
        /\ SetIndex(remove_file(IndexState, file_path))
        /\ key_order' = OrderAfterRemove(key_order, IndexState, file_path)
        /\ last' = CallRecord("remove", file_path)
    /\ UNCHANGED <<build_pc, conc_vars, workspace_root, outcome, eval, class_cache>>

OrderNext == OrderedUpdate \/ OrderedUpdateAgain \/ OrderedRemove

OrderSpec == Init /\ [][OrderNext]_vars


\* ------------------------------------------------------------- properties
Count(list, x) == Cardinality({i \in DOMAIN list : list[i] = x})

\* the last declaration of name in a file's list of definitions
LastDeclaration(list, name) ==
    list[CHOOSE i \in DOMAIN list :
            /\ list[i].name = name
            /\ \A j \in DOMAIN list : list[j].name = name => j <= i]

\* how often usage u occurs in the per-file lists of the indexed templates
RECURSIVE CountInFiles(_, _)
CountInFiles(files, u) ==
    IF files = <<>> THEN 0
    ELSE (IF Head(files) \in indexed_template_files
          THEN Count(get_usages_in_file(IndexState, Head(files)), u) ELSE 0)
         + CountInFiles(Tail(files), u)

UsagesInFiles ==
    UNION {Range(get_usages_in_file(IndexState, f)) : f \in indexed_template_files}

\* C1: every entry n -> d of the name map has d.name = n, and d is in the
\* list of definitions recorded for the file d.file_path
C1_NameMapBackedByFile ==
    \A n \in DOMAIN definitions :
        LET d == definitions[n] IN
        /\ d.name = n
        /\ d.file_path \in DOMAIN definitions_by_file
        /\ d \in Range(definitions_by_file[d.file_path])

\* a Python file was updated or removed, a name it reported before is gone
\* from it and from the name map, and the name map still holds other entries
C1_Witness ==
    /\ last.op \in {"update", "remove"}
    /\ Suffix(last.file_path) = ".py"
    /\ \E n \in last.old_names :
        /\ n \notin NamesIn(get_definitions_in_file(IndexState, last.file_path))
        /\ n \notin DOMAIN definitions
    /\ definitions # EmptyDict

C3_Original ==
    (last.op = "update" /\ Suffix(last.file_path) = ".py") =>
        \A n \in last.old_names \ NamesIn(get_definitions_in_file(IndexState, last.file_path)) :
            /\ get_definition(IndexState, n) = None
            /\ \A d \in find_unused_definitions(IndexState) : d.name # n

\* C3 amended: such a name has no definition and is not reported unused,
\* unless another file's definition owned the name before the call: then
\* get_definition still gives a definition of another file; in both cases no
\* definition of f under that name is returned or reported unused
C3_DroppedName ==
    (last.op = "update" /\ Suffix(last.file_path) = ".py") =>
        \A n \in last.old_names \ NamesIn(get_definitions_in_file(IndexState, last.file_path)) :
            /\ IF n \in last.kept
               THEN /\ get_definition(IndexState, n) # None
                    /\ get_definition(IndexState, n).file_path # last.file_path
               ELSE /\ get_definition(IndexState, n) = None
                    /\ \A d \in find_unused_definitions(IndexState) : d.name # n
            /\ \A d \in find_unused_definitions(IndexState) :
                    d.name = n => d.file_path # last.file_path

\* an update dropped two names of the file: one the file owned, which is now
\* absent, and one another file owned, which is still defined
C3_Witness ==
    /\ last.op = "update"
    /\ Suffix(last.file_path) = ".py"
    /\ \E n \in last.old_names \ last.kept, m \in last.kept :
        /\ n \notin NamesIn(get_definitions_in_file(IndexState, last.file_path))
        /\ m \notin NamesIn(get_definitions_in_file(IndexState, last.file_path))
        /\ get_definition(IndexState, n) = None
        /\ get_definition(IndexState, m) # None

\* the content a recorded per-file list was parsed from
ContentOf(list) == [i \in DOMAIN list |-> list[i].name]

Reverse(s) == [i \in DOMAIN s |-> s[Len(s) + 1 - i]]

\* a fresh index into which the current content of every still-indexed file,
\* taken in the given order, is inserted once
RECURSIVE InsertOnce(_, _)
InsertOnce(st, files) ==
    IF files = <<>> THEN st
    ELSE LET f == Head(files) IN
         InsertOnce(
            IF f \in indexed_python_files
            THEN index_python_file(st, f, ContentOf(get_definitions_in_file(IndexState, f)))
            ELSE IF f \in indexed_template_files
            THEN index_template_file(st, f, ContentOf(get_usages_in_file(IndexState, f)))
            ELSE st,
            Tail(files))

FreshIndex(files) == InsertOnce(EmptyIndex, files)

SameAnswers(st, fresh) ==
    /\ \A n \in Names :
        /\ get_definition(st, n) = get_definition(fresh, n)
        /\ Range(get_usages(st, n)) = Range(get_usages(fresh, n))
        /\ Len(get_usages(st, n)) = Len(get_usages(fresh, n))
    /\ get_all_definition_names(st) = get_all_definition_names(fresh)
    /\ find_undefined_usages(st) = find_undefined_usages(fresh)
    /\ find_unused_definitions(st) = find_unused_definitions(fresh)

C5_LatestWins ==
    (last.op \in {"update", "index"} /\ Suffix(last.file_path) = ".py") =>
        LET in_file == get_definitions_in_file(IndexState, last.file_path) IN
        \A n \in NamesIn(in_file) :
            /\ get_definition(IndexState, n) = LastDeclaration(in_file, n)
            /\ get_definition(IndexState, n).file_path = last.file_path

\* an update declared twice a name that another file owned: the second
\* declaration is now the definition
C5_Witness ==
    /\ last.op = "update"
    /\ Suffix(last.file_path) = ".py"
    /\ \E n \in Names, g \in indexed_python_files \ {last.file_path} :
        /\ n \in NamesIn(get_definitions_in_file(IndexState, g))
        /\ Count([i \in DOMAIN get_definitions_in_file(IndexState, last.file_path) |->
                    get_definitions_in_file(IndexState, last.file_path)[i].name], n) = 2
        /\ get_definition(IndexState, n).file_path = last.file_path
        /\ get_definition(IndexState, n).line_number = 2

\* C6: update_file(f, ..) or remove_file(f) on a Python file leaves the
\* definition of n as it was when f's recorded list held n, another file's
\* definition owned n, and the new content of f does not declare n
C6_EvictionGuard ==
    [][(last'.op \in {"update", "remove"} /\ Suffix(last'.file_path) = ".py") =>
        \A n \in NamesIn(get_definitions_in_file(IndexState, last'.file_path)) :
            (/\ get_definition(IndexState, n) # None
             /\ get_definition(IndexState, n).file_path # last'.file_path
             /\ n \notin NamesIn(get_definitions_in_file(IndexState', last'.file_path)))
            => get_definition(IndexState', n) = get_definition(IndexState, n)]_vars

\* a file was removed whose list held a name that another file owned, and
\* the other file's definition is still there
C6_Witness ==
    /\ last.op = "remove"
    /\ Suffix(last.file_path) = ".py"
    /\ \E n \in last.kept :
        /\ get_definition(IndexState, n) # None
        /\ get_definition(IndexState, n).file_path # last.file_path

\* C7: a query that runs among mutating calls returns what the maps before
\* or the maps after a whole mutating call give, never what a half-done call
\* left; get_definition(n) is not absent when it is present before and after
C7_ReaderAtomicity ==
    \A t \in Readers :
        pc[t] = "returned" =>
            /\ call[t].result \in call[t].allowed
            /\ (call[t].op = "get_definition" /\ None \notin call[t].allowed)
                    => call[t].result # None

\* a get_definition was issued while an update_file had evicted the name it
\* re-declares, and it returned the name's definition
C7_Witness ==
    \E t \in Readers :
        /\ pc[t] = "returned"
        /\ call[t].midway
        /\ call[t].op = "get_definition"
        /\ call[t].result # None

\* the steps of the public operations that read or write one of the four maps
MapAccess == {"update_evict", "update_store", "remove_python", "remove_template",
              "build_clear", "build_index", "build_log", "query_read"}

MapWrite == {"update_evict", "update_store", "remove_python", "remove_template",
             "build_clear", "build_index"}

\* C8: a thread at a step that reads or writes one of the four maps holds the
\* lock, and no thread is at such a step while another thread is mutating
C8_AccessUnderLock ==
    \A t \in Threads :
        pc[t] \in MapAccess =>
            /\ lock_owner = t
            /\ \A u \in Threads \ {t} : pc[u] \notin MapWrite

\* C9: whenever no mutating call is inside its with block, the four maps (and
\* the two sets) hold what the calls made so far produce when executed one at
\* a time, in the order in which they entered the lock
C9_Serializable ==
    lock_owner = NoThread => IndexState = serial

\* a build_full_index has not returned yet, another writer's whole call has
\* run meanwhile and changed what the build left, and the maps are not empty
C9_Witness ==
    \E t \in Writers : \E u \in Writers \ {t} :
        /\ pc[t] = "build_log"
        /\ pc[u] = "idle"
        /\ lock_owner = NoThread
        /\ IndexState # build_full_index(EmptyIndex, call[t].disk)
        /\ definitions # EmptyDict
        /\ IndexState = serial

\* C11: when build_full_index has cleared and indexed, the four maps and the
\* two sets are those the same build gives on a newly constructed index:
\* they depend on the files found on disk only, nothing recorded before stays
C11_BuildDiscardsPrevious ==
    \A t \in Writers :
        (pc[t] = "build_index" /\ call[t].todo = <<>>) =>
            /\ IndexState = build_full_index(EmptyIndex, call[t].disk)
            /\ indexed_python_files \cup indexed_template_files = DOMAIN call[t].disk

\* a build finished its loops on a disk that holds a template using a name;
\* before it the index held definitions of a source file that is not on disk
C11_Witness ==
    \E t \in Writers :
        /\ pc[t] = "build_index"
        /\ call[t].todo = <<>>
        /\ usages # EmptyDict
        /\ \E f \in committed.indexed_python_files \ DOMAIN call[t].disk :
                committed.definitions_by_file[f] # <<>>

\* C12: a build_full_index called while no workspace root is set does not
\* raise and leaves the four maps and both indexed-file sets as they were
C12_NoRootNoOp ==
    [][(outcome'.op = "build" /\ workspace_root = NoPath) =>
            (IndexState' = IndexState /\ ~outcome'.raised)]_vars

\* a build returned for want of a root, the index holding definitions and usages
C12_Witness ==
    /\ outcome.op = "build"
    /\ outcome.read = "no_root"
    /\ definitions # EmptyDict
    /\ usages # EmptyDict

\* C13: an update_file whose content (given, or read from disk) is malformed,
\* cannot be decoded or read, or whose file is missing, does not raise, leaves
\* the file's per-file list empty, and no name the file owned keeps a definition
C13_ParseFailureEmptyResult ==
    (outcome.op = "update" /\ outcome.read # "ok") =>
        /\ ~outcome.raised
        /\ get_definitions_in_file(IndexState, last.file_path) = <<>>
        /\ get_usages_in_file(IndexState, last.file_path) = <<>>
        /\ Suffix(last.file_path) = ".py" =>
                \A n \in last.old_names \ last.kept : get_definition(IndexState, n) = None

SameAppGroup(d, current_file) ==
    IF current_file = NoFile THEN 0
    ELSE IF extract_app_name(d.file_path) = extract_app_name(current_file) THEN 0 ELSE 1

\* C16: after a build over one source file declaring class C with name n and
\* one template invoking n once with direct tag k, get_definition(n) is of
\* class C, get_usages(n) is one usage of tag type k, and neither an undefined
\* usage nor an unused definition is reported
C16_EndToEndBuild ==
    eval.fn = "build_full_index" =>
        LET st == eval.index IN
        /\ get_definition(st, eval.n) # None
        /\ get_definition(st, eval.n).class_name = eval.class_name
        /\ Len(get_usages(st, eval.n)) = 1
        /\ get_usages(st, eval.n)[1].tag_type = eval.k
        /\ find_undefined_usages(st) = {}
        /\ find_unused_definitions(st) = {}

\* C17: get_definitions_sorted_by_relevance returns every definition of the
\* name map once, those whose inferred app equals the current file's first,
\* by ascending name within each group; by name alone without a current file
C17_SortedByRelevance ==
    eval.fn = "get_definitions_sorted_by_relevance" =>
        LET got == eval.result IN
        /\ Range(got) = eval.all_defs
        /\ Len(got) = Cardinality(eval.all_defs)
        /\ \A i, j \in DOMAIN got :
            i < j =>
                \/ SameAppGroup(got[i], eval.current_file) < SameAppGroup(got[j], eval.current_file)
                \/ /\ SameAppGroup(got[i], eval.current_file) = SameAppGroup(got[j], eval.current_file)
                   /\ NameRank(got[i].name) < NameRank(got[j].name)

\* the file being edited is of app1; the definition of the greater name, of
\* app1, comes before the definition of the smaller name, of app2
C17_Witness ==
    /\ eval.fn = "get_definitions_sorted_by_relevance"
    /\ extract_app_name(eval.current_file) = "app1"
    /\ Len(eval.result) = 2
    /\ eval.result[1].name = NamesSorted[2]
    /\ extract_app_name(eval.result[1].file_path) = "app1"
    /\ eval.result[2].name = NamesSorted[1]
    /\ extract_app_name(eval.result[2].file_path) = "app2"

\* the positions of the reserved segments in a path
ReservedAt(parts) == {i \in DOMAIN parts : parts[i] \in ReservedDirs}
First(positions) == CHOOSE i \in positions : \A j \in positions : i <= j

\* C18: the inferred app of a path is the segment before the first reserved
\* segment (hx_requests, templates, template_partials), and is absent exactly
\* when the path holds no reserved segment
C18_AppBeforeFirstReserved ==
    eval.fn = "_extract_app_name" =>
        IF ReservedAt(eval.parts) = {}
        THEN eval.result = NoApp
        ELSE /\ eval.result # NoApp
             /\ eval.result = eval.parts[First(ReservedAt(eval.parts)) - 1]

\* a path with two reserved segments after different segments: the app is
\* the segment before the first of them
C18_Witness ==
    /\ eval.fn = "_extract_app_name"
    /\ Cardinality(ReservedAt(eval.parts)) = 2
    /\ eval.parts[2] = "app1"
    /\ eval.parts[3] \in ReservedDirs
    /\ eval.parts[4] # "app1"
    /\ eval.result = "app1"

\* C19: get_all_definition_names is strictly ascending and holds exactly the
\* names get_definition resolves; get_usages gives the empty list for a name
\* without recorded usage
C19_NamesSortedUsagesEmpty ==
    LET got == get_all_definition_names_sorted(IndexState) IN
    /\ \A i, j \in DOMAIN got : i < j => NameRank(got[i]) < NameRank(got[j])
    /\ Range(got) = {n \in Names : get_definition(IndexState, n) # None}
    /\ \A n \in Names :
        (\A u \in UsagesInFiles : u.name # n) => get_usages(IndexState, n) = <<>>

\* both names are defined, the greater one by the file indexed first; one
\* name has usages and the other has none
C19_Witness ==
    /\ get_all_definition_names_sorted(IndexState) = NamesSorted
    /\ definitions[NamesSorted[1]].file_path = PythonFilesSorted[2]
    /\ definitions[NamesSorted[2]].file_path = PythonFilesSorted[1]
    /\ usages # EmptyDict
    /\ \E n \in Names : n \notin DOMAIN usages /\ get_usages(IndexState, n) = <<>>

\* the string literals the body assigns to name
AssignedLiterals(node) ==
    {node.body[i].value : i \in {j \in DOMAIN node.body :
        /\ node.body[j].kind \in {"Assign", "AnnAssign"}
        /\ "name" \in node.body[j].targets
        /\ node.body[j].value_kind = "str"}}

\* a direct base is an identifier (plain, the attribute of a dotted access,
\* the name a subscript is applied to) ending in a recognized suffix
HasRecognizedBase(node) ==
    \E i \in DOMAIN node.bases :
        /\ \/ node.bases[i].kind \in {"Name", "Attribute"}
           \/ node.bases[i].kind = "Subscript" /\ node.bases[i].value = "Name"
        /\ \E suffix \in RecognizedSuffixes : EndsWith(node.bases[i].id, suffix)

\* C20: a class with a direct base ending in a recognized suffix whose body
\* assigns a string literal to name yields exactly one definition, its name
\* that literal, whatever the literal's value
C20_OneDefinitionPerHandlerClass ==
    (/\ eval.fn = "visit_ClassDef"
     /\ HasRecognizedBase(eval.node)
     /\ AssignedLiterals(eval.node) # {}) =>
        /\ Len(eval.result) = 1
        /\ eval.result[1].name \in AssignedLiterals(eval.node)
        /\ eval.result[1].class_name = eval.node.name

\* C10: after remove_file(f) no definition of f is in the name map, no usage
\* of f is in any name's list, and both per-file queries on f are empty
C10_RemovedFileGone ==
    last.op = "remove" =>
        /\ \A n \in DOMAIN definitions : definitions[n].file_path # last.file_path
        /\ \A n \in DOMAIN usages :
            \A i \in DOMAIN usages[n] : usages[n][i].file_path # last.file_path
        /\ get_definitions_in_file(IndexState, last.file_path) = <<>>
        /\ get_usages_in_file(IndexState, last.file_path) = <<>>

\* a template with usages was removed while the other template still uses
\* one of its names
C10_Witness ==
    /\ last.op = "remove"
    /\ Suffix(last.file_path) = ".html"
    /\ \E n \in last.old_names : get_usages(IndexState, n) # <<>>

\* C21: a class with a recognized base whose body assigns no string literal
\* to name (no assignment to name at all, or only values that are not string
\* literals) yields no definition, and a class with no recognized direct
\* base yields none even when it assigns a string literal to name
C21_SkippedClasses ==
    (/\ eval.fn = "visit_ClassDef"
     /\ \/ AssignedLiterals(eval.node) = {}
        \/ ~HasRecognizedBase(eval.node)) =>
        eval.result = <<>>

\* a class whose only base ends in a recognized suffix and whose name is
\* assigned something that is not a string literal
C21_Witness ==
    /\ eval.fn = "visit_ClassDef"
    /\ HasRecognizedBase(eval.node)
    /\ \E i \in DOMAIN eval.node.body :
        /\ eval.node.body[i].kind = "Assign"
        /\ eval.node.body[i].targets = {"name"}
        /\ eval.node.body[i].value_kind = "other"
    /\ AssignedLiterals(eval.node) = {}
    /\ eval.result = <<>>

\* the matches of both patterns on one line
MatchesOn(line) == Range(TagMatchesFrom(line, 0)) \cup Range(ValsMatchesFrom(line, 0))

\* the match on line line_num has a usage in the result
Produced(result, line_num, match) ==
    \E i \in DOMAIN result :
        /\ result[i].line_number = line_num
        /\ result[i].tag_type = match.tag_type
        /\ result[i].arg_start = match.arg_start
        /\ result[i].name = match.name

\* C22: a match of a direct tag or of the hx_request_name keyword argument
\* yields a usage exactly if its name argument is a quoted string literal or
\* a bare identifier without a dot
C22_AcceptanceRule ==
    eval.fn = "parse_template_for_hx_requests" =>
        LET lines == splitlines(eval.content) IN
        \A line_num \in DOMAIN lines : \A match \in MatchesOn(lines[line_num]) :
            Produced(eval.result, line_num, match) <=> (match.quoted \/ ~HasDot(match.name))

\* C23: the span of every usage is the span of the name argument of the tag
\* occurrence that produced it, never a place in the tag keyword and never a
\* later tag of the line
C23_SpanIsNameArgument ==
    eval.fn = "parse_template_for_hx_requests" =>
        \A i \in DOMAIN eval.result :
            /\ eval.result[i].column = eval.result[i].arg_start
            /\ eval.result[i].end_column
                = eval.result[i].arg_start + Len(eval.result[i].name)

\* C24: every usage produced from line L carries the 1-based index of L, a
\* non-empty span inside L as long as the name, and the characters of L in
\* the span are the name
C24_SpanInsideLine ==
    eval.fn = "parse_template_for_hx_requests" =>
        LET lines == splitlines(eval.content)
            matches == [l \in DOMAIN lines |-> MatchesOn(lines[l])]
        IN
        \A i \in DOMAIN eval.result :
            LET u == eval.result[i] IN
            /\ u.line_number \in DOMAIN lines
            /\ \E match \in matches[u.line_number] :
                /\ match.name = u.name
                /\ match.tag_type = u.tag_type
                /\ match.arg_start = u.arg_start
                /\ Slice(lines[u.line_number], match.start, match.end) = u.full_match
            /\ Cardinality({j \in DOMAIN eval.result :
                            eval.result[j].line_number = u.line_number})
                = Cardinality({match \in matches[u.line_number] : ~HasDot(match.name)})
            /\ 0 <= u.column
            /\ u.column < u.end_column
            /\ u.end_column <= Len(lines[u.line_number])
            /\ u.end_column - u.column = Len(u.name)
            /\ Slice(lines[u.line_number], u.column, u.end_column) = u.name
            /\ \A p \in u.column..(u.end_column - 1) : At(lines[u.line_number], p) # NewLine

\* a usage on the second line of a text whose span is not the argument of the
\* tag that produced it
C24_Witness ==
    /\ eval.fn = "parse_template_for_hx_requests"
    /\ \E i \in DOMAIN eval.result :
        /\ eval.result[i].line_number = 2
        /\ eval.result[i].column # eval.result[i].arg_start
        /\ Len(eval.result[i].name) > 1

\* where the environment lets a name be found outside the referencing file
InLibrary(env, name) ==
    name = "Base" /\ name \in env.imported /\ env.lib \in {"own", "sibling"}
InWorkspace(env, name) ==
    /\ name = "Base" /\ name \in env.imported /\ env.root # <<>>
    /\ env.pkg \in {"init", "extra"} \/ env.file = "declared"

LibraryLocations == {LibFile, LibSibling}
WorkspaceLocations == {WsInit, WsExtra, WsFile}

\* C26: the tiers are tried in the order same file, library, workspace and
\* the first that finds the class gives the result: a name the library tier
\* finds never gets a workspace location, and a workspace location is only
\* returned when the two earlier tiers found nothing, the name is in the
\* import map and the workspace root is known
C26_TierOrder ==
    eval.fn = "resolve_all_base_classes" =>
        \A i \in DOMAIN eval.base_classes :
            LET name == eval.base_classes[i]
                made == eval.calls[i]
            IN
            /\ name \in eval.env.local =>
                made.tier = "same file" /\ made.info.file_path = SourceFile
            /\ (name \notin eval.env.local /\ InLibrary(eval.env, name)) =>
                /\ made.tier = "library"
                /\ made.info.file_path \in LibraryLocations
                /\ made.info.file_path \notin WorkspaceLocations
            /\ (made.tier = "workspace" \/ made.info.file_path \in WorkspaceLocations) =>
                /\ name \notin eval.env.local
                /\ ~InLibrary(eval.env, name)
                /\ name \in eval.env.imported
                /\ eval.env.root # <<>>
                /\ InWorkspace(eval.env, name)

\* Base is not declared in the referencing file, the installed module and
\* the workspace both declare it, the root is known: the library location
\* is returned
C26_Witness ==
    /\ eval.fn = "resolve_all_base_classes"
    /\ "Base" \notin eval.env.local
    /\ InLibrary(eval.env, "Base") /\ InWorkspace(eval.env, "Base")
    /\ \E i \in DOMAIN eval.calls :
        /\ eval.base_classes[i] = "Base"
        /\ eval.calls[i].tier = "library"
        /\ eval.calls[i].info.file_path \in LibraryLocations

\* the candidate locations in the order the claim gives them: module as a
\* file, module as a package's __init__.py, last segment as a file under
\* the parent package
CandidatesInClaimedOrder == <<WsFile, WsInit, WsFile>>
FirstExisting(env, paths) ==
    LET existing == {k \in DOMAIN paths : Exists(env, paths[k])}
    IN IF existing = {} THEN <<>> ELSE paths[Least(existing)]

\* C27: in the workspace tier only the first existing candidate, in the
\* order module file, package __init__.py, file under the parent package, is
\* scanned: the result is that candidate's declaration of the class, and
\* the name stays unresolved if that candidate does not declare it
C27_FirstCandidateOnly ==
    eval.fn = "resolve_all_base_classes" =>
        \A i \in DOMAIN eval.base_classes :
            LET name == eval.base_classes[i]
                made == eval.calls[i]
                first == FirstExisting(eval.env, CandidatesInClaimedOrder)
            IN
            (/\ name \notin eval.env.local
             /\ name \in eval.env.imported
             /\ eval.env.root # <<>>
             /\ eval.env.lib \in {"absent", "none"}) =>
                IF first # <<>> /\ name \in DOMAIN parse_file_for_classes(eval.env, first)
                THEN made.info.file_path = first
                ELSE made.info.file_path = <<>>

\* C28: base_class_info has one entry per base class, in order and with its
\* name, and a name no tier finds (in particular one neither declared in the
\* referencing file nor imported) gets an entry without file path and line,
\* its resolution never raising
C28_OneInfoPerBase ==
    eval.fn = "resolve_all_base_classes" =>
        /\ ~eval.result.raised =>
            /\ Len(eval.result.info) = Len(eval.base_classes)
            /\ \A i \in DOMAIN eval.base_classes :
                eval.result.info[i].name = eval.base_classes[i]
        /\ \A i \in DOMAIN eval.base_classes :
            LET name == eval.base_classes[i] IN
            (/\ name \notin eval.env.local
             /\ ~InLibrary(eval.env, name)
             /\ ~InWorkspace(eval.env, name)) =>
                /\ ~eval.calls[i].raised
                /\ eval.calls[i].info
                    = [name |-> name, file_path |-> <<>>, line_number |-> NoLine]

\* what the public queries can tell of an index: both name maps (every query
\* by name, the name list, the relevance order, both searches) and the
\* per-file lists with an absent file reading as the empty list
SameObservations(st, other) ==
    /\ st.definitions = other.definitions
    /\ st.usages = other.usages
    /\ \A f \in Files :
        /\ get_definitions_in_file(st, f) = get_definitions_in_file(other, f)
        /\ get_usages_in_file(st, f) = get_usages_in_file(other, f)
    /\ find_undefined_usages_list(st) = find_undefined_usages_list(other)
    /\ find_unused_definitions_list(st) = find_unused_definitions_list(other)
    /\ get_all_definition_names_sorted(st) = get_all_definition_names_sorted(other)

\* C29: remove_file(f) and update_file(f, text) with a text that declares
\* nothing leave the index in states no public query tells apart: every
\* remove_file step ends where the empty update would have, the key order of
\* the name maps included, and every empty update step ends where remove_file
\* would have
C29_RemoveIsEmptyUpdate ==
    [][LET f == last'.file_path IN
        /\ last'.op = "remove" =>
            /\ SameObservations(IndexState', update_file(IndexState, f, <<>>))
            /\ key_order' = OrderAfterUpdate(key_order, IndexState, f, <<>>)
        /\ (/\ last'.op = "update"
            /\ IndexState' = update_file(IndexState, f, <<>>)) =>
                SameObservations(IndexState', remove_file(IndexState, f))]_vars

\* a source file was removed while another file owned one of its names
C29_Witness ==
    /\ last.op = "remove"
    /\ Suffix(last.file_path) = ".py"
    /\ last.kept # {}
    /\ last.old_names \ last.kept # {}
    /\ last.file_path \notin indexed_python_files


\* C30: closing a document never changes the index: over a did_close step
\* every collection of the index is what it was, so every query answers as
\* before, and what the closed file had recorded, in its per-file list and
\* under its names in the name maps, is still there
C30_CloseKeepsIndex ==
    [][last'.op = "did_close" =>
        /\ IndexState' = IndexState
        /\ SameObservations(IndexState', IndexState)
        /\ LET f == last'.file_path IN
            /\ get_definitions_in_file(IndexState', f) = get_definitions_in_file(IndexState, f)
            /\ get_usages_in_file(IndexState', f) = get_usages_in_file(IndexState, f)
            /\ NamesIn(get_definitions_in_file(IndexState', f))
                \cup NamesIn(get_usages_in_file(IndexState', f)) = last'.old_names
            /\ \A n \in last'.old_names :
                /\ get_definition(IndexState', n) = get_definition(IndexState, n)
                /\ get_usages(IndexState', n) = get_usages(IndexState, n)
            /\ (f \in indexed_python_files') = (f \in indexed_python_files)
            /\ (f \in indexed_template_files') = (f \in indexed_template_files)]_vars

\* a document whose declarations are indexed was closed
C30_Witness ==
    /\ last.op = "did_close"
    /\ outcome.op = "did_close"
    /\ last.old_names # {}
    /\ last.file_path \in indexed_python_files \cup indexed_template_files
    /\ IF Suffix(last.file_path) = ".py"
       THEN get_definitions_in_file(IndexState, last.file_path) # <<>>
       ELSE get_usages_in_file(IndexState, last.file_path) # <<>>


\* C31: in every reachable state, every Definition in the per-file list of an
\* indexed source file has its name in the name map, and no usage of such a
\* name is among the undefined usages
C31_DeclaredNamesDefined ==
    \A f \in indexed_python_files :
        \A n \in NamesIn(get_definitions_in_file(IndexState, f)) :
            /\ get_definition(IndexState, n) # None
            /\ n \notin NamesIn(find_undefined_usages_list(IndexState))


\* C32: after update_file(p, text) on a source file, for every base class
\* name the text itself declares as a class, the stored BaseClassInfo of
\* each Definition of p points to p at the line where the text declares it
C32_LocalBaseFromText ==
    (eval.fn = "update_file" /\ ~eval.raised) =>
        \A i \in DOMAIN get_definitions_in_file(IndexState, SourceFile) :
            LET d == get_definitions_in_file(IndexState, SourceFile)[i] IN
            \A k \in DOMAIN d.base_classes :
                d.base_classes[k] \in DOMAIN eval.classes =>
                    /\ d.base_class_info[k].file_path = SourceFile
                    /\ d.base_class_info[k].line_number = eval.classes[d.base_classes[k]]


\* C33: if the parser raises inside update_file(f, ...), the index is left
\* exactly as it was before the call: the name maps still hold what f owned,
\* the per-file lists are as before, and the lock is free
C33_FailedUpdateKeepsIndex ==
    [][(outcome'.op = "update" /\ outcome'.raised) =>
        /\ IndexState' = IndexState
        /\ \A n \in last'.old_names :
            /\ get_definition(IndexState', n) = get_definition(IndexState, n)
            /\ get_usages(IndexState', n) = get_usages(IndexState, n)
        /\ lock_owner' = NoThread]_vars


\* C34: in every reachable state every file with entries in the per-file
\* definition map is a source file the convention matches, and every file
\* with entries in the per-file usage map is a template the convention
\* matches: update_file indexes no file a build would not discover
C34_OnlyConventionFiles ==
    /\ \A path \in DOMAIN definitions_by_file :
        definitions_by_file[path] # <<>> => InHxRequestFiles(RootPath, path)
    /\ \A path \in DOMAIN usages_by_file :
        usages_by_file[path] # <<>> => InTemplateFiles(RootPath, path)


\* C37: update_file on a path whose suffix is neither .py nor .html, and
\* remove_file on a path that is not indexed, leave the four maps and both
\* indexed-file sets as they were
C37_OtherPathsChangeNothing ==
    [][(\/ /\ last'.op = "update"
           /\ FileSuffix(last'.file_path) \notin {".py", ".html"}
        \/ /\ last'.op = "remove"
           /\ last'.file_path \notin indexed_python_files \cup indexed_template_files)
       => IndexState' = IndexState]_vars

\* update_file was called on a path of another suffix while the index held
\* definitions and usages
C37_Witness ==
    /\ last.op = "update"
    /\ FileSuffix(last.file_path) \notin {".py", ".html"}
    /\ definitions # EmptyDict
    /\ usages # EmptyDict
    /\ last.file_path \notin DOMAIN definitions_by_file \cup DOMAIN usages_by_file


\* the key order is the order of the maps it belongs to
OrderIsOfMaps ==
    /\ Range(key_order.definitions) = DOMAIN definitions
    /\ Range(key_order.usages) = DOMAIN usages
    /\ Len(key_order.definitions) = Cardinality(DOMAIN definitions)
    /\ Len(key_order.usages) = Cardinality(DOMAIN usages)

\* C35 as stated: update_file(f, text) applied a second time in a row leaves
\* the four maps and every query result identical, the results of
\* get_all_definitions, find_unused_definitions and find_undefined_usages
\* included
C35_Original ==
    [][last'.op = "again" =>
        /\ IndexState' = IndexState
        /\ get_all_definitions(IndexState', key_order') = get_all_definitions(IndexState, key_order)
        /\ FindUnusedInOrder(IndexState', key_order') = FindUnusedInOrder(IndexState, key_order)
        /\ FindUndefinedInOrder(IndexState', key_order')
            = FindUndefinedInOrder(IndexState, key_order)]_vars

\* C35: update_file(f, text) applied a second time in a row leaves the four
\* maps, both indexed-file sets, every query by name or by file, the sorted
\* name list and find_undefined_usages identical; get_all_definitions and
\* find_unused_definitions return the same Definitions, possibly in another
\* order
C35_IdempotentUpToOrder ==
    [][last'.op = "again" =>
        /\ IndexState' = IndexState
        /\ SameObservations(IndexState', IndexState)
        /\ FindUndefinedInOrder(IndexState', key_order')
            = FindUndefinedInOrder(IndexState, key_order)
        /\ key_order'.usages = key_order.usages
        /\ Range(get_all_definitions(IndexState', key_order'))
            = Range(get_all_definitions(IndexState, key_order))
        /\ Len(get_all_definitions(IndexState', key_order'))
            = Len(get_all_definitions(IndexState, key_order))
        /\ Range(FindUnusedInOrder(IndexState', key_order'))
            = Range(FindUnusedInOrder(IndexState, key_order))
        /\ Len(FindUnusedInOrder(IndexState', key_order'))
            = Len(FindUnusedInOrder(IndexState, key_order))]_vars

\* a source file was updated a second time with the same text, which
\* declares a name another file declares too
C35_Witness ==
    /\ last.op = "again"
    /\ Suffix(last.file_path) = ".py"
    /\ last.old_names # {}
    /\ \E g \in PyFiles \ {last.file_path} :
        NamesIn(get_definitions_in_file(IndexState, g)) \cap last.old_names # {}


\* C36: update_file on a source file leaves the name-to-usages map and every
\* per-file usage list unchanged, leaves the per-file definition list of
\* every other file unchanged, and leaves get_definition(n) unchanged for
\* every name n neither in the file's previously recorded list nor declared
\* by the new content; update_file on a template leaves both definition maps
\* and every other file's per-file usage list unchanged, and in each name's
\* list the usages of other files stay, in the order they had
C36_UpdateFrame ==
    [][last'.op \in {"update", "again"} =>
        LET f == last'.file_path
            OfOthers(list) == LET Other(u) == u.file_path # f IN SelectSeq(list, Other)
        IN IF Suffix(f) = ".py"
           THEN /\ usages' = usages
                /\ usages_by_file' = usages_by_file
                /\ indexed_template_files' = indexed_template_files
                /\ key_order'.usages = key_order.usages
                /\ \A g \in Files \ {f} :
                    /\ (g \in DOMAIN definitions_by_file') = (g \in DOMAIN definitions_by_file)
                    /\ get_definitions_in_file(IndexState', g)
                        = get_definitions_in_file(IndexState, g)
                /\ \A n \in Names \ (last'.old_names
                                     \cup NamesIn(get_definitions_in_file(IndexState', f))) :
                    get_definition(IndexState', n) = get_definition(IndexState, n)
           ELSE /\ definitions' = definitions
                /\ definitions_by_file' = definitions_by_file
                /\ indexed_python_files' = indexed_python_files
                /\ key_order'.definitions = key_order.definitions
                /\ \A g \in Files \ {f} :
                    /\ (g \in DOMAIN usages_by_file') = (g \in DOMAIN usages_by_file)
                    /\ get_usages_in_file(IndexState', g) = get_usages_in_file(IndexState, g)
                /\ \A n \in Names :
                    OfOthers(get_usages(IndexState', n)) = OfOthers(get_usages(IndexState, n))]_vars

\* a template was updated while another template's two usages of one of its
\* names were in that name's list
C36_Witness ==
    /\ last.op = "update"
    /\ Suffix(last.file_path) = ".html"
    /\ \E n \in last.old_names :
        /\ n \in NamesIn(get_usages_in_file(IndexState, last.file_path))
        /\ \E i, j \in DOMAIN get_usages(IndexState, n) :
            /\ i < j
            /\ get_usages(IndexState, n)[i].file_path # last.file_path
            /\ get_usages(IndexState, n)[j].file_path # last.file_path
    /\ definitions # EmptyDict


\* C38: a Definition is ranked ahead of one with a smaller name only when the
\* current file has an inferred app and the Definition's inferred app is that
\* app; when the app of the current file cannot be inferred the result is
\* ordered by name alone
C38_NoAppNoRanking ==
    eval.fn = "get_definitions_sorted_by_relevance" =>
        LET got == eval.result
            current_app == IF eval.current_file = NoFile THEN NoApp
                           ELSE extract_app_name(eval.current_file)
        IN /\ \A i, j \in DOMAIN got :
                (i < j /\ NameRank(got[i].name) > NameRank(got[j].name)) =>
                    /\ current_app # NoApp
                    /\ extract_app_name(got[i].file_path) = current_app
           /\ current_app = NoApp =>
                got = SortedByNameOnly(eval.all_defs, eval.current_file)

====
